---- MODULE Spec2Model ----
(***************************************************************************)
(* Transaction categorisation engine of lark_wallet: the rule matcher      *)
(* (scripts/validate_rules.py, scripts/fill_by_rules.py), the rule miner   *)
(* (scripts/extract_rules.py) and the review workflow                      *)
(* (scripts/feishu_review.py over lib/feishu_client.py).                   *)
(*                                                                         *)
(* Text is modelled as a sequence of one-character strings, so that        *)
(* str.strip, str.upper, slicing and the `in` substring test are computed  *)
(* as Python computes them.  Labels that the code only compares for        *)
(* equality and truthiness (purpose, subcat, record ids, status) are TLA+  *)
(* strings; "" is the empty (falsy) value.                                 *)
(***************************************************************************)
EXTENDS Integers, Sequences, FiniteSets, TLC

VARIABLES
    \* ---- rule matcher (RuleMatcher) ----
    rules_file,      \* the CSV rule file: [has_enabled, rows]
    matcher_rules,   \* RuleMatcher.rules
    m_note,          \* argument of the last match call
    m_category,      \* argument of the last match call
    m_result,        \* value returned by the last match call
    m_pc,            \* "new" -> "loaded" -> "matched"
    \* ---- keyword extraction (extract_keywords) ----
    kw_note,         \* argument
    kw_out,          \* returned list
    kw_pc,           \* "new" -> "done"
    \* ---- rule miner (extract_rules) ----
    corpus,          \* all_records, as list_records returned them
    min_count,       \* parameter
    max_rules,       \* parameter
    mine_idx,        \* number of records the loop has consumed
    rule_stats,      \* the dict of dicts, as the list of its items in insertion order
    mine_rules,      \* the list `rules` after sorting and truncation
    out_file,        \* the CSV written
    mine_pc,         \* "scan" -> "done"
    mine_hist,       \* the rule list of every finished extract_rules run
    \* ---- the remote tables ----
    source,          \* the ledger table: record_id -> fields
    review,          \* the review table: its rows in list order; the row number
                     \* stands for the row's record_id
    \* ---- push_to_review ----
    to_push,         \* the list to_push
    push_pc,         \* "new" -> "done" | "aborted"
    \* ---- sync_from_review ----
    sync_pc,         \* "idle" | "src_bulk" | "src_row" | "rev_bulk" | "rev_row"
    updates,         \* the list `updates`
    batch_start,     \* the loop variable i of the running batch loop
    row,             \* position inside the batch of the per-row fallback
    row_success,     \* `success` of the running _fallback_single_update
    success_count,   \* success_count
    review_updates,  \* the list review_updates, as review record ids
    runs,            \* completed sync_from_review calls
    \* ---- observation of a sync run (not program state) ----
    snap,            \* the review table as the run read it
    written,         \* review ids whose update reached the source table in this run
    wfail,           \* review ids whose write-back failed in this run
    call_failed,     \* some store call of this run failed
    hist,            \* one summary per completed run
    \* ---- ExpenseClassifier ----
    clf,             \* the classifier object: its dicts, vocabularies and flags
    train_log,       \* the corpus of every train call made on it, in call order
    p_note,          \* argument of the predict call
    p_category,      \* argument of the predict call
    p_threshold,     \* argument confidence_threshold of the predict call
    p_result,        \* what the predict call returned, or RAISED
    p_pc,            \* "idle" -> "predicted"
    \* ---- SmartCategorizer and learn_from_ledger ----
    corr_file,       \* data/corrections.json, as the items of the dict it holds
    corr_mem,        \* SmartCategorizer._corrections of each process
    corr_mode,       \* what drives the store: "off" | "learn" | "api" | "clean"
    ledger,          \* all_records of each learning job
    l_idx,           \* position of each job's loop over all_records
    l_pc,            \* "record" -> "compare" -> ... -> "done" for each job
    local_prediction,\* local_prediction of each job
    learned_count,   \* learned_count of each job
    \* ---- observation of the store (not program state) ----
    learn_log,       \* one entry per record a learning job has dealt with
    api_log,         \* one entry per direct add_correction / categorize call
    clean_log,       \* one entry per direct _clean_counterparty call
    \* ---- extract_counterparty_from_note ----
    x_note,          \* argument
    x_category,      \* argument
    x_result,        \* returned value
    x_pc,            \* "new" -> "done"
    \* ---- observation of sync_from_review (not program state) ----
    sync_dry,        \* argument dry_run of the sync_from_review call last started
    \* ---- fill_by_rules ----
    f_dry,           \* argument dry_run
    f_overwrite,     \* argument overwrite
    f_max_fill,      \* argument max_fill
    f_confirm,       \* what the operator typed at the prompt
    f_updates,       \* the list `updates`
    f_before,        \* the ledger table as the call read it
    f_pc,            \* "new" -> "done"
    \* ---- apply_validation ----
    v_file,          \* the rows of the validation CSV
    v_dry,           \* argument dry_run
    v_confirm,       \* what the operator typed at the prompt
    v_updates,       \* the list `updates`
    v_pc,            \* "new" -> "done"
    \* ---- FeishuClient.batch_create_records / batch_update_records ----
    b_kind,          \* "create" or "update"
    b_records,       \* argument records
    b_pc,            \* "new" -> "bulk_done" | "raised" | "fallback" -> "done"
    b_i,             \* the index i of the fallback loop
    b_outcomes,      \* how each pass of the fallback loop ended
    b_result,        \* success, failed and errors of the returned dict
    \* ---- FeishuClient._api_call_with_retry ----
    a_max,           \* argument max_retries
    a_attempt,       \* the loop variable attempt
    a_pc,            \* "loop" -> "returned" | "raised"
    a_seen,          \* what each request gave, in order
    a_slept,         \* the waits of time.sleep, in order
    a_result,        \* the body returned or the exception raised
    \* ---- import_account_bills, one source ----
    i_all,           \* the dates of all_records, as parsed
    i_prev,          \* the timestamp stored before the run
    i_last,          \* the timestamp stored in the configuration
    i_size,          \* settings['batch_size']
    i_new,           \* the dates of new_records
    i_i,             \* the offset i of the batch loop
    i_max,           \* max_timestamp
    i_success,       \* success_count
    i_fail,          \* fail_count
    i_created,       \* positions in new_records of the records the store created
    i_pc             \* "new" -> "batches" -> "done"

rulesVars == <<rules_file, matcher_rules, m_note, m_category, m_result, m_pc>>
kwVars == <<kw_note, kw_out, kw_pc>>
mineVars == <<corpus, min_count, max_rules, mine_idx, rule_stats, mine_rules,
              out_file, mine_pc, mine_hist>>
tableVars == <<source, review>>
pushVars == <<to_push, push_pc>>
syncVars == <<sync_pc, updates, batch_start, row, row_success, success_count,
              review_updates, runs, snap, written, wfail, call_failed, hist>>
reviewVars == <<tableVars, pushVars, syncVars>>
clfVars == <<clf, train_log, p_note, p_category, p_threshold, p_result, p_pc>>
\* the components added to the engine's core
corrVars == <<corr_file, corr_mem, corr_mode, ledger, l_idx, l_pc,
              local_prediction, learned_count, learn_log, api_log, clean_log>>
xVars == <<x_note, x_category, x_result, x_pc>>
\* the scripts around the engine
fillVars == <<f_dry, f_overwrite, f_max_fill, f_confirm, f_updates, f_before, f_pc>>
valVars == <<v_file, v_dry, v_confirm, v_updates, v_pc>>
batchVars == <<b_kind, b_records, b_pc, b_i, b_outcomes, b_result>>
retryVars == <<a_max, a_attempt, a_pc, a_seen, a_slept, a_result>>
impVars == <<i_all, i_prev, i_last, i_size, i_new, i_i, i_max, i_success, i_fail,
             i_created, i_pc>>
apiVars == <<batchVars, retryVars, impVars>>
toolVars == <<xVars, fillVars, valVars, apiVars>>
coreVars == <<rulesVars, kwVars, mineVars, reviewVars, clfVars, corrVars>>
notXVars == <<coreVars, sync_dry, fillVars, valVars, apiVars>>
\* what fill_by_rules and apply_validation leave alone, the ledger aside
notFillVars == <<rulesVars, kwVars, mineVars, review, pushVars, syncVars,
                 clfVars, corrVars, sync_dry, xVars, valVars, apiVars>>
notValVars == <<rulesVars, kwVars, mineVars, review, pushVars, syncVars,
                clfVars, corrVars, sync_dry, xVars, fillVars, apiVars>>
notSyncDryVars == <<clfVars, corrVars, toolVars>>
extVars == <<notSyncDryVars, sync_dry>>
notImpVars == <<coreVars, sync_dry, xVars, fillVars, valVars, batchVars, retryVars>>
vars == <<rulesVars, kwVars, mineVars, tableVars, pushVars, syncVars, extVars>>

(***************************************************************************)
(* Bounds                                                                  *)
(***************************************************************************)
MaxRows == 2        \* rows of a rule file
MaxNoteLen == 2     \* characters of a note handed to match
MaxKwNoteLen == 7   \* characters of a note handed to extract_keywords
MaxCorpus == 3      \* records of a mined corpus
MaxMineRuns == 2    \* extract_rules runs over one corpus
MaxTrainLen == 1    \* records of a corpus handed to train
MaxTrainCalls == 2  \* train calls on one classifier
MaxPushRows == 1    \* rows of the rule file push_to_review loads
MaxSource == 2      \* records of the ledger table push_to_review reads
MaxItems == 2       \* rows of the review table sync_from_review reads
MaxRuns == 2        \* sync_from_review calls in a row
BatchSize == 1      \* batch_size of sync_from_review (100 in the code), scaled
                    \* to the bounded tables so that a run has several batches

(***************************************************************************)
(* Text helpers                                                            *)
(***************************************************************************)
Seqs(S, n) == UNION {[1..k -> S] : k \in 0..n}

MinOf(S) == CHOOSE x \in S : \A y \in S : x <= y
MaxOf(S) == CHOOSE x \in S : \A y \in S : x >= y

IsSpace(c) == c = " "

\* str.strip(): leading and trailing whitespace removed
strip(s) ==
    LET keep == {i \in 1..Len(s) : ~IsSpace(s[i])}
    IN  IF keep = {} THEN <<>> ELSE SubSeq(s, MinOf(keep), MaxOf(keep))

LowerLetters == <<"a","b","c","d","e","f","g","h","i","j","k","l","m",
                  "n","o","p","q","r","s","t","u","v","w","x","y","z">>
UpperLetters == <<"A","B","C","D","E","F","G","H","I","J","K","L","M",
                  "N","O","P","Q","R","S","T","U","V","W","X","Y","Z">>

UpperChar(c) ==
    IF \E i \in 1..Len(LowerLetters) : LowerLetters[i] = c
    THEN UpperLetters[CHOOSE i \in 1..Len(LowerLetters) : LowerLetters[i] = c]
    ELSE c

\* str.upper()
upper(s) == [i \in 1..Len(s) |-> UpperChar(s[i])]

\* Python's `kw in note` on strings
Contains(kw, note) ==
    \E i \in 0..(Len(note) - Len(kw)) : SubSeq(note, i + 1, i + Len(kw)) = kw

\* note[:n]
Prefix(s, n) == SubSeq(s, 1, IF n < Len(s) THEN n ELSE Len(s))

TRUE_TEXT == <<"T","R","U","E">>
NONE == "<None>"   \* Python's None as a returned purpose/subcat

(***************************************************************************)
(* RuleMatcher                                                             *)
(***************************************************************************)
\* row.get('enabled', 'TRUE'): the default applies when the column is absent
RowEnabled(file, i) ==
    IF file.has_enabled THEN file.rows[i].enabled ELSE TRUE_TEXT

\* the test of load_rules line 33, negated: the row is kept
RowKeptMutCaseSensitive(file, i) == RowEnabled(file, i) = TRUE_TEXT
RowKept(file, i) == upper(RowEnabled(file, i)) = TRUE_TEXT

RECURSIVE KeptFrom(_, _)
KeptFrom(file, i) ==
    IF i > Len(file.rows) THEN <<>>
    ELSE IF RowKept(file, i) THEN <<i>> \o KeptFrom(file, i + 1)
    ELSE KeptFrom(file, i + 1)

\* the file rows load_rules appends, by row number, in the order of the loop
KeptRows(file) == KeptFrom(file, 1)

RuleOfRow(r) ==
    [keyword |-> r.keyword, category |-> r.category,
     purpose |-> r.purpose, subcat |-> r.subcat]

load_rules(file) ==
    LET kept == KeptRows(file)
    IN  [k \in 1..Len(kept) |-> RuleOfRow(file.rows[kept[k]])]

RECURSIVE MatchFrom(_, _, _, _)
MatchFrom(rules, i, note, category) ==
    IF i > Len(rules) THEN <<NONE, NONE>>
    ELSE IF rules[i].category # category THEN MatchFrom(rules, i + 1, note, category)
    ELSE IF Contains(rules[i].keyword, note)
         THEN <<rules[i].purpose, rules[i].subcat>>
    ELSE MatchFrom(rules, i + 1, note, category)

RECURSIVE MatchLastFrom(_, _, _, _)
MatchLastFrom(rules, i, note, category) ==
    IF i < 1 THEN <<NONE, NONE>>
    ELSE IF rules[i].category = category /\ Contains(rules[i].keyword, note)
         THEN <<rules[i].purpose, rules[i].subcat>>
    ELSE MatchLastFrom(rules, i - 1, note, category)

matchMutLast(rules, note, category) ==
    MatchLastFrom(rules, Len(rules), strip(note), strip(category))

\* RuleMatcher.match
match(rules, note, category) ==
    MatchFrom(rules, 1, strip(note), strip(category))

(***************************************************************************)
(* Inputs of the matcher                                                   *)
(***************************************************************************)
NoteChars == {"a", "b", " "}
Notes == Seqs(NoteChars, MaxNoteLen)
Keywords == {<<"a">>, <<"a","b">>, <<" ","a">>}
RuleCategories == {<<"c">>, <<"d">>}
InputCategories == {<<"c">>, <<"c"," ">>, <<"d">>}
Purposes == {"p", "q"}
Subcats == {"x"}
EnabledValues ==
    {TRUE_TEXT, <<"t","r","u","e">>, <<"T","r","u","E">>,
     <<"F","A","L","S","E">>, <<>>, <<"1">>}

RowsOver(kws, ens) ==
    [keyword : kws, category : RuleCategories, purpose : Purposes,
     subcat : Subcats, enabled : ens]

\* hand-editable files: any keyword with the flag as written by the miner, or
\* one keyword with any flag; the enabled column present or absent
RuleFiles ==
    LET rowSeqs == Seqs(RowsOver(Keywords, {TRUE_TEXT}), MaxRows)
                   \cup Seqs(RowsOver({<<"a">>}, EnabledValues), MaxRows)
    IN  [has_enabled : {TRUE}, rows : rowSeqs]
        \cup [has_enabled : {FALSE}, rows : Seqs(RowsOver(Keywords, {<<>>}), MaxRows)]

RulesInit ==
    /\ rules_file \in RuleFiles
    /\ matcher_rules = <<>>
    /\ m_note = <<>>
    /\ m_category = <<>>
    /\ m_result = <<NONE, NONE>>
    /\ m_pc = "new"

RulesOff ==
    /\ rules_file = [has_enabled |-> FALSE, rows |-> <<>>]
    /\ matcher_rules = <<>>
    /\ m_note = <<>>
    /\ m_category = <<>>
    /\ m_result = <<NONE, NONE>>
    /\ m_pc = "off"

\* RuleMatcher.__init__: load the file
LoadRules ==
    /\ m_pc = "new"
    /\ matcher_rules' = load_rules(rules_file)
    /\ m_pc' = "loaded"
    /\ UNCHANGED <<extVars, rules_file, m_note, m_category, m_result, kwVars, mineVars, reviewVars>>

\* one call of RuleMatcher.match (match reads self.rules only and writes nothing,
\* so one call per matcher shows every call)
Match ==
    /\ m_pc = "loaded"
    /\ \E n \in Notes, c \in InputCategories :
        /\ m_note' = n
        /\ m_category' = c
        /\ m_result' = match(matcher_rules, n, c)
    /\ m_pc' = "matched"
    /\ UNCHANGED <<extVars, rules_file, matcher_rules, kwVars, mineVars, reviewVars>>

RulesNext == LoadRules \/ Match

(***************************************************************************)
(* extract_keywords                                                        *)
(***************************************************************************)
KwChars == {"a", "b"}

RECURSIVE PrefixesFrom(_, _)
PrefixesFrom(note, ns) ==
    IF ns = <<>> THEN <<>>
    ELSE (IF Len(note) >= Head(ns) THEN <<Prefix(note, Head(ns))>> ELSE <<>>)
         \o PrefixesFrom(note, Tail(ns))

\* the list `keywords` before the final list(set(...))
KeywordList(raw) ==
    LET note == strip(raw)
    IN  IF note = <<>> THEN <<>>
        ELSE (IF Len(note) <= 6 THEN <<note>> ELSE <<>>)
             \o PrefixesFrom(note, <<3, 4, 5>>)

\* the set the returned list is built from
extract_keywords(raw) == {KeywordList(raw)[i] : i \in 1..Len(KeywordList(raw))}

KwInit ==
    /\ kw_note \in Seqs(KwChars, MaxKwNoteLen)
    /\ kw_out = {}
    /\ kw_pc = "new"

KwOff ==
    /\ kw_note = <<>>
    /\ kw_out = {}
    /\ kw_pc = "off"

ExtractKeywords ==
    /\ kw_pc = "new"
    /\ kw_out' = extract_keywords(kw_note)
    /\ kw_pc' = "done"
    /\ UNCHANGED <<extVars, kw_note, rulesVars, mineVars, reviewVars>>

KwNext == ExtractKeywords


(***************************************************************************)
(* extract_rules                                                           *)
(***************************************************************************)
\* the two values of the direction field (U+652F U+51FA and U+6536 U+5165)
EXPENSE == "expense"
INCOME == "income"

RECURSIVE Gcd(_, _)
Gcd(a, b) == IF b = 0 THEN a ELSE Gcd(b, a % b)

\* the value of the float count / total, as the fraction in lowest terms
Ratio(count, total) ==
    [num |-> count \div Gcd(count, total), den |-> total \div Gcd(count, total)]

\* Python's tuple comparison of (confidence, count)
KeyGreater(a, b) ==
    \/ a.confidence.num * b.confidence.den > b.confidence.num * a.confidence.den
    \/ /\ a.confidence.num * b.confidence.den = b.confidence.num * a.confidence.den
       /\ a.count > b.count

KeyEqual(a, b) ==
    /\ a.confidence.num * b.confidence.den = b.confidence.num * a.confidence.den
    /\ a.count = b.count

\* the record passes the filters of lines 85 and 108
Qualifies(rec) ==
    /\ rec.direction = EXPENSE
    /\ strip(rec.note) # <<>>
    /\ rec.category # <<>>
    /\ rec.purpose # ""
    /\ rec.subcat # ""

\* every order list(set(keywords)) may come out in
KeywordOrders(raw) ==
    LET ks == extract_keywords(raw)
    IN  {q \in [1..Cardinality(ks) -> ks] : \A i, j \in 1..Cardinality(ks) : i # j => q[i] # q[j]}

KeyIndex(stats, key) ==
    IF \E i \in 1..Len(stats) : stats[i].key = key
    THEN CHOOSE i \in 1..Len(stats) : stats[i].key = key
    ELSE 0

OutIndex(outputs, out) ==
    IF \E i \in 1..Len(outputs) : outputs[i].out = out
    THEN CHOOSE i \in 1..Len(outputs) : outputs[i].out = out
    ELSE 0

\* rule_stats[rule_key][output] += 1 on the defaultdicts
AddCount(stats, key, out) ==
    LET k == KeyIndex(stats, key)
    IN  IF k = 0 THEN Append(stats, [key |-> key, outputs |-> <<[out |-> out, n |-> 1]>>])
        ELSE LET o == OutIndex(stats[k].outputs, out)
             IN  IF o = 0
                 THEN [stats EXCEPT ![k].outputs = Append(@, [out |-> out, n |-> 1])]
                 ELSE [stats EXCEPT ![k].outputs[o].n = @ + 1]

RECURSIVE AddKeywords(_, _, _)
AddKeywords(stats, kws, rec) ==
    IF kws = <<>> THEN stats
    ELSE AddKeywords(AddCount(stats, <<Head(kws), rec.category>>,
                              <<rec.purpose, rec.subcat>>),
                     Tail(kws), rec)

\* max(outputs.items(), key=lambda x: x[1]): the first item of greatest count
MostCommonMutLeast(outputs) ==
    outputs[MinOf({i \in 1..Len(outputs) :
                      \A j \in 1..Len(outputs) : outputs[j].n >= outputs[i].n})]
MostCommon(outputs) ==
    outputs[MinOf({i \in 1..Len(outputs) :
                      \A j \in 1..Len(outputs) : outputs[j].n <= outputs[i].n})]

SumCountsMutDistinct(outputs) == Len(outputs)
RECURSIVE SumCounts(_)
SumCounts(outputs) ==
    IF outputs = <<>> THEN 0 ELSE Head(outputs).n + SumCounts(Tail(outputs))

RuleOfEntry(e) ==
    LET best == MostCommon(e.outputs)
        total == SumCounts(e.outputs)
    IN  [keyword |-> e.key[1], category |-> e.key[2],
         purpose |-> best.out[1], subcat |-> best.out[2],
         confidence |-> Ratio(best.n, total), count |-> best.n, total |-> total]

\* the loop of lines 124-144: one rule per key whose best count reaches minc
RECURSIVE CollectRules(_, _)
CollectRules(stats, minc) ==
    IF stats = <<>> THEN <<>>
    ELSE (IF MostCommon(Head(stats).outputs).n < minc THEN <<>>
          ELSE <<RuleOfEntry(Head(stats))>>)
         \o CollectRules(Tail(stats), minc)

RECURSIVE InsertDesc(_, _)
InsertDesc(x, s) ==
    IF s = <<>> THEN <<x>>
    ELSE IF KeyGreater(x, Head(s)) THEN <<x>> \o s
    ELSE <<Head(s)>> \o InsertDesc(x, Tail(s))

RECURSIVE SortDesc(_)
SortDesc(rs) ==
    IF rs = <<>> THEN <<>>
    ELSE InsertDesc(rs[Len(rs)], SortDesc(SubSeq(rs, 1, Len(rs) - 1)))

\* rules.sort(key=(confidence, count), reverse=True): stable, greatest first
SortRulesMutUnsorted(rs) == rs
SortRules(rs) == SortDesc(rs)

\* rules[:max_rules] when longer
Truncate(rs, maxr) == IF Len(rs) > maxr THEN SubSeq(rs, 1, maxr) ELSE rs

\* f"{confidence:.2%}": the percentage to two decimals, here in hundredths of a
\* percent, rounded half to even
PercentText(conf) ==
    LET q == (conf.num * 10000) \div conf.den
        r == (conf.num * 10000) % conf.den
    IN  IF 2 * r > conf.den THEN q + 1
        ELSE IF 2 * r = conf.den THEN q + (q % 2)
        ELSE q

\* one writer.writerow
RowOfRule(rule) ==
    [keyword |-> rule.keyword, category |-> rule.category,
     purpose |-> rule.purpose, subcat |-> rule.subcat,
     confidence |-> PercentText(rule.confidence),
     count |-> rule.count, total |-> rule.total,
     enabled |-> TRUE_TEXT, notes |-> <<>>]

WriteRules(rs) ==
    [has_enabled |-> TRUE, rows |-> [i \in 1..Len(rs) |-> RowOfRule(rs[i])]]

MineNotes == {<<"a","b","c">>, <<"a","b","c","d">>, <<"a","b","d">>}
MineOutcomes == {<<"p","x">>, <<"q","y">>}

MineRecords ==
    [direction : {EXPENSE}, note : MineNotes, category : {<<"c">>},
     purpose : {"p", "q"}, subcat : {"x"}]
    \cup {[direction |-> EXPENSE, note |-> <<"a","b","c">>, category |-> <<"d">>,
           purpose |-> "p", subcat |-> "x"],
          [direction |-> INCOME, note |-> <<"a","b","c">>, category |-> <<"c">>,
           purpose |-> "p", subcat |-> "x"],
          [direction |-> EXPENSE, note |-> <<"a","b","c">>, category |-> <<"c">>,
           purpose |-> "", subcat |-> "x"]}

MinCounts == {1, 2}
MaxRulesChoices == {1, 500}

MineInit ==
    /\ corpus \in Seqs(MineRecords, MaxCorpus)
    /\ min_count \in MinCounts
    /\ max_rules \in MaxRulesChoices
    /\ mine_idx = 0
    /\ rule_stats = <<>>
    /\ mine_rules = <<>>
    /\ out_file = [has_enabled |-> FALSE, rows |-> <<>>]
    /\ mine_pc = "scan"
    /\ mine_hist = <<>>

MineOff ==
    /\ corpus = <<>>
    /\ min_count = 0
    /\ max_rules = 0
    /\ mine_idx = 0
    /\ rule_stats = <<>>
    /\ mine_rules = <<>>
    /\ out_file = [has_enabled |-> FALSE, rows |-> <<>>]
    /\ mine_pc = "off"
    /\ mine_hist = <<>>

\* one iteration of the loop over all_records (lines 81-119)
MineRecord ==
    /\ mine_pc = "scan"
    /\ mine_idx < Len(corpus)
    /\ LET rec == corpus[mine_idx + 1]
       IN  IF Qualifies(rec)
           THEN \E kws \in KeywordOrders(rec.note) :
                    rule_stats' = AddKeywords(rule_stats, kws, rec)
           ELSE rule_stats' = rule_stats
    /\ mine_idx' = mine_idx + 1
    /\ UNCHANGED <<extVars, corpus, min_count, max_rules, mine_rules, out_file, mine_pc,
                   mine_hist, rulesVars, kwVars, reviewVars>>

\* lines 121-176: collect, sort, truncate, write
EmitRules ==
    /\ mine_pc = "scan"
    /\ mine_idx = Len(corpus)
    /\ mine_rules' = Truncate(SortRules(CollectRules(rule_stats, min_count)), max_rules)
    /\ out_file' = WriteRules(mine_rules')
    /\ mine_pc' = "done"
    /\ mine_hist' = Append(mine_hist, mine_rules')
    /\ UNCHANGED <<extVars, corpus, min_count, max_rules, mine_idx, rule_stats,
                   rulesVars, kwVars, reviewVars>>

MineNext == MineRecord \/ EmitRules

\* the script is started again, as a new process, on the same ledger with the
\* same parameters: list_records returns the same records in the same order
MineAgain ==
    /\ mine_pc = "done"
    /\ Len(mine_hist) < MaxMineRuns
    /\ mine_idx' = 0
    /\ rule_stats' = <<>>
    /\ mine_rules' = <<>>
    /\ mine_pc' = "scan"
    /\ UNCHANGED <<extVars, corpus, min_count, max_rules, out_file, mine_hist,
                   rulesVars, kwVars, reviewVars>>

MineTwiceNext == MineRecord \/ EmitRules \/ MineAgain

(***************************************************************************)
(* Mining a ledger and matching a new transaction with the mined file      *)
(***************************************************************************)
DefaultMinCount == 2
DefaultMaxRules == 500

\* the note U+5348 U+9910 "-" U+697C U+4E0B U+9762 U+9986 (7 characters), one
\* stand-in letter per character, and the category U+9910 U+996E
LunchNote == <<"w", "c", "-", "l", "x", "m", "g">>
LunchCategory == <<"c", "y">>
\* the labels (U+65E5 U+5E38, U+5916 U+98DF) and (U+793E U+4EA4, U+805A U+9910)
DailyEatOut == <<"daily", "eatout">>
SocialDinner == <<"social", "dinner">>

LunchRecord(out) ==
    [direction |-> EXPENSE, note |-> LunchNote, category |-> LunchCategory,
     purpose |-> out[1], subcat |-> out[2]]

\* the five records in any order list_records may return them
LunchCorpora ==
    {c \in [1..5 -> {LunchRecord(DailyEatOut), LunchRecord(SocialDinner)}] :
        Cardinality({i \in 1..5 : c[i] = LunchRecord(DailyEatOut)}) = 3}

LunchInit ==
    /\ corpus \in LunchCorpora
    /\ min_count = DefaultMinCount
    /\ max_rules = DefaultMaxRules
    /\ mine_idx = 0
    /\ rule_stats = <<>>
    /\ mine_rules = <<>>
    /\ out_file = [has_enabled |-> FALSE, rows |-> <<>>]
    /\ mine_pc = "scan"
    /\ mine_hist = <<>>
    /\ rules_file = [has_enabled |-> FALSE, rows |-> <<>>]
    /\ matcher_rules = <<>>
    /\ m_note = <<>>
    /\ m_category = <<>>
    /\ m_result = <<NONE, NONE>>
    /\ m_pc = "new"

\* RuleMatcher(rules_file) on the file extract_rules wrote, then match on a
\* new transaction with the same note and category
LunchPredict ==
    /\ mine_pc = "done"
    /\ m_pc = "new"
    /\ rules_file' = out_file
    /\ matcher_rules' = load_rules(out_file)
    /\ m_note' = LunchNote
    /\ m_category' = LunchCategory
    /\ m_result' = match(matcher_rules', LunchNote, LunchCategory)
    /\ m_pc' = "matched"
    /\ UNCHANGED <<extVars, kwVars, mineVars, reviewVars>>

LunchNext == MineRecord \/ EmitRules \/ LunchPredict

(***************************************************************************)
(* The review workflow: tables                                             *)
(***************************************************************************)
\* the options of the review table's status field (lines 102-105), in order:
\* awaiting review, confirmed, synced, ignored
PENDING == "pending"
CONFIRMED == "confirmed"
SYNCED == "synced"
IGNORED == "ignored"
Statuses == {PENDING, CONFIRMED, SYNCED, IGNORED}

RecIdSeq == <<"r1", "r2", "r3", "r4">>

\* Python truthiness of a value that is None or a string
Truthy(v) == v # NONE /\ v # ""

\* Python's `v or d`
OrElse(v, d) == IF Truthy(v) THEN v ELSE d

RECURSIVE SelectIdx(_, _, _)
SelectIdx(seq, S, i) ==
    IF i > Len(seq) THEN <<>>
    ELSE (IF i \in S THEN <<seq[i]>> ELSE <<>>) \o SelectIdx(seq, S, i + 1)

(***************************************************************************)
(* push_to_review                                                          *)
(***************************************************************************)
\* lines 219-243: the two comparisons and the branch taken; a comparison is
\* None when the prediction for its field is falsy
PurposeMatch(cur, pred) ==
    IF Truthy(pred) THEN (IF cur = pred THEN "True" ELSE "False") ELSE NONE
IsTrue(v) == v = "True"

\* the to_push entries one record contributes (lines 174-265); the date and
\* amount columns are carried along unread and are left out
StageOf(id, rec, rules) ==
    LET note == strip(rec.note)
        category == strip(rec.category)
        pred == match(rules, note, category)
        pm == PurposeMatch(rec.purpose, pred[1])
        sm == PurposeMatch(rec.subcat, pred[2])
        item(pp, ps, fp, fs) ==
            [source_id |-> id, category |-> category, note |-> note,
             current_purpose |-> rec.purpose, current_subcat |-> rec.subcat,
             predicted_purpose |-> pp, predicted_subcat |-> ps,
             final_purpose |-> fp, final_subcat |-> fs, status |-> PENDING]
    IN  IF rec.direction # EXPENSE THEN <<>>
        ELSE IF note = <<>> \/ category = <<>> THEN <<>>
        ELSE IF pred[1] = NONE /\ pred[2] = NONE
             THEN <<item("", "", rec.purpose, rec.subcat)>>
        ELSE IF IsTrue(pm) /\ IsTrue(sm) THEN <<>>
        ELSE <<item(OrElse(pred[1], ""), OrElse(pred[2], ""),
                    OrElse(pred[1], rec.purpose), OrElse(pred[2], rec.subcat))>>

RECURSIVE BuildToPush(_, _, _)
BuildToPush(src, k, rules) ==
    IF k > Cardinality(DOMAIN src) THEN <<>>
    ELSE StageOf(RecIdSeq[k], src[RecIdSeq[k]], rules) \o BuildToPush(src, k + 1, rules)

PushRuleRows ==
    [keyword : {<<"a">>}, category : {<<"c">>},
     purpose : {"", "p"}, subcat : {"", "x"}, enabled : {TRUE_TEXT}]
    \ {[keyword |-> <<"a">>, category |-> <<"c">>, purpose |-> "", subcat |-> "",
        enabled |-> TRUE_TEXT]}

LedgerRecords ==
    [direction : {EXPENSE}, note : {<<"a">>, <<"b">>}, category : {<<"c">>},
     purpose : {"", "p", "q"}, subcat : {"", "x"}]
    \cup {[direction |-> INCOME, note |-> <<"a">>, category |-> <<"c">>,
           purpose |-> "q", subcat |-> "x"],
          [direction |-> EXPENSE, note |-> <<" ">>, category |-> <<"c">>,
           purpose |-> "q", subcat |-> "x"],
          [direction |-> EXPENSE, note |-> <<"a">>, category |-> <<>>,
           purpose |-> "q", subcat |-> "x"]}

Ledgers(n) ==
    UNION {[{RecIdSeq[i] : i \in 1..k} -> LedgerRecords] : k \in 0..n}

SyncLocalsInit ==
    /\ updates = <<>>
    /\ batch_start = 0
    /\ row = 0
    /\ row_success = 0
    /\ success_count = 0
    /\ review_updates = <<>>
    /\ runs = 0
    /\ snap = <<>>
    /\ written = {}
    /\ wfail = {}
    /\ call_failed = FALSE
    /\ hist = <<>>

SyncIdle ==
    /\ sync_pc = "off"
    /\ updates = <<>>
    /\ batch_start = 0
    /\ row = 0
    /\ row_success = 0
    /\ success_count = 0
    /\ review_updates = <<>>
    /\ runs = 0
    /\ snap = <<>>
    /\ written = {}
    /\ wfail = {}
    /\ call_failed = FALSE
    /\ hist = <<>>

PushInit ==
    /\ rules_file \in [has_enabled : {TRUE}, rows : Seqs(PushRuleRows, MaxPushRows)]
    /\ matcher_rules = <<>>
    /\ m_note = <<>>
    /\ m_category = <<>>
    /\ m_result = <<NONE, NONE>>
    /\ m_pc = "off"
    /\ source \in Ledgers(MaxSource)
    /\ review = <<>>
    /\ to_push = <<>>
    /\ push_pc = "new"
    /\ SyncIdle

ReviewOff ==
    /\ source = <<>>
    /\ review = <<>>
    /\ to_push = <<>>
    /\ push_pc = "off"
    /\ SyncIdle

\* push_to_review, the whole call: load the rules, read the ledger, stage, and
\* create the staged rows in batches.  A batch creates all of its rows, none
\* (the call raised, or the store answered with no rows), or the rows whose
\* single create succeeded in the per-row fallback: any part of to_push.
PushToReview ==
    /\ push_pc = "new"
    /\ matcher_rules' = load_rules(rules_file)
    /\ to_push' = BuildToPush(source, 1, matcher_rules')
    /\ \E created \in SUBSET (1..Len(to_push')) :
          review' = review \o SelectIdx(to_push', created, 1)
    /\ push_pc' = "done"
    /\ UNCHANGED <<extVars, rules_file, m_note, m_category, m_result, m_pc, source,
                   kwVars, mineVars, syncVars>>

\* list_records raises while the ledger is read: the call ends, nothing staged
PushReadFails ==
    /\ push_pc = "new"
    /\ matcher_rules' = load_rules(rules_file)
    /\ push_pc' = "aborted"
    /\ UNCHANGED <<extVars, rules_file, m_note, m_category, m_result, m_pc, source, review,
                   to_push, kwVars, mineVars, syncVars>>

PushNext == PushToReview \/ PushReadFails

(***************************************************************************)
(* sync_from_review over FeishuClient.batch_update_records                 *)
(***************************************************************************)
\* line 387: only rows whose status is the confirmed option are handled
IsSelectedMutNotSynced(item) == item.status # SYNCED
IsSelected(item) == item.status = CONFIRMED

\* lines 370-408: the entry of `updates` one review row contributes; a field
\* of the update that is "" stands for a key left out of update_fields
UpdateOf(i, item) ==
    IF ~IsSelected(item) THEN <<>>
    ELSE IF item.source_id = "" THEN <<>>
    ELSE IF item.final_purpose = "" /\ item.final_subcat = "" THEN <<>>
    ELSE <<[record_id |-> item.source_id, purpose |-> item.final_purpose,
            subcat |-> item.final_subcat, review_record_id |-> i]>>

RECURSIVE BuildUpdatesFrom(_, _)
BuildUpdatesFrom(rev, i) ==
    IF i > Len(rev) THEN <<>>
    ELSE UpdateOf(i, rev[i]) \o BuildUpdatesFrom(rev, i + 1)

BuildUpdates(rev) == BuildUpdatesFrom(rev, 1)

\* updates[i:i + batch_size]
BatchOf(seq, i) ==
    SubSeq(seq, i + 1, IF i + BatchSize < Len(seq) THEN i + BatchSize ELSE Len(seq))

ApplyUpdateMutPurposeOnly(src, u) ==
    [src EXCEPT ![u.record_id] =
        [src[u.record_id] EXCEPT
            !.purpose = IF u.purpose # "" THEN u.purpose ELSE @]]

\* the store applying one update of the ledger table: the fields named in the
\* update are overwritten, the others kept
ApplyUpdate(src, u) ==
    [src EXCEPT ![u.record_id] =
        [src[u.record_id] EXCEPT
            !.purpose = IF u.purpose # "" THEN u.purpose ELSE @,
            !.subcat = IF u.subcat # "" THEN u.subcat ELSE @]]

RECURSIVE ApplyAll(_, _)
ApplyAll(src, batch) ==
    IF batch = <<>> THEN src ELSE ApplyAll(ApplyUpdate(src, Head(batch)), Tail(batch))

\* lines 455-459: the status update queued for every row of the batch
QueuedMutNone(batch) == <<>>
Queued(batch) == [k \in 1..Len(batch) |-> batch[k].review_record_id]

\* the store applying {status: synced} to review rows
MarkSynced(rev, ids) ==
    [i \in 1..Len(rev) |-> IF i \in ids THEN [rev[i] EXCEPT !.status = SYNCED] ELSE rev[i]]

SeqSet(seq) == {seq[k] : k \in 1..Len(seq)}

RunSummary(dry, ups, rev1, rev2, written2, failed2) ==
    [dry |-> dry,
     selected |-> {ups[k].review_record_id : k \in 1..Len(ups)},
     written |-> written2,
     synced |-> {i \in 1..Len(rev2) : rev1[i].status # SYNCED /\ rev2[i].status = SYNCED},
     failed |-> failed2]

ReviewItem(status, src, fin) ==
    [source_id |-> src, category |-> <<"c">>, note |-> <<"a">>,
     current_purpose |-> "p0", current_subcat |-> "x0",
     predicted_purpose |-> "", predicted_subcat |-> "",
     final_purpose |-> fin[1], final_subcat |-> fin[2], status |-> status]

SyncRecIds == {"r1", "r2"}

\* review rows as push_to_review creates them and a person edits them:
\* confirmed rows for either ledger record, with both final values, one, or
\* none (a row staged without a rule for a record that has no labels yet, and
\* confirmed as it is); a row of each other status
ReviewItems ==
    {ReviewItem(CONFIRMED, r, <<"p", "x">>) : r \in SyncRecIds}
    \cup {ReviewItem(CONFIRMED, "r1", <<"q", "">>),
          ReviewItem(CONFIRMED, "r1", <<"", "">>)}
    \cup {ReviewItem(st, "r1", <<"p", "x">>) : st \in Statuses \ {CONFIRMED}}

SyncInit ==
    /\ source = [r \in SyncRecIds |->
                    [direction |-> EXPENSE, note |-> <<"a">>, category |-> <<"c">>,
                     purpose |-> "p0", subcat |-> "x0"]]
    /\ review \in Seqs(ReviewItems, MaxItems)
    /\ to_push = <<>>
    /\ push_pc = "off"
    /\ sync_pc = "idle"
    /\ SyncLocalsInit

ReturnsAfterPreviewMutNever(ups, dry_run) == ups = <<>>

\* lines 411-432: the two returns before the first write
ReturnsAfterPreview(ups, dry_run) == ups = <<>> \/ dry_run

\* lines 340-432: read the review table, build `updates`, preview; return when
\* there is nothing to do or in preview mode
SyncRead ==
    /\ sync_pc = "idle"
    /\ runs < MaxRuns
    /\ \E dry_run \in BOOLEAN :
        LET ups == BuildUpdates(review)
        IN  /\ updates' = ups
            /\ sync_dry' = dry_run
            /\ IF ReturnsAfterPreview(ups, dry_run)
               THEN /\ sync_pc' = "idle"
                    /\ runs' = runs + 1
                    /\ hist' = Append(hist, RunSummary(dry_run, ups, review, review, {}, FALSE))
               ELSE /\ sync_pc' = "src_bulk"
                    /\ UNCHANGED <<runs, hist>>
    /\ snap' = review
    /\ batch_start' = 0
    /\ row' = 0
    /\ row_success' = 0
    /\ success_count' = 0
    /\ review_updates' = <<>>
    /\ written' = {}
    /\ wfail' = {}
    /\ call_failed' = FALSE
    /\ UNCHANGED <<notSyncDryVars, source, review, to_push, push_pc, rulesVars, kwVars, mineVars>>

\* list_records raises while the review table is read: the call ends there
SyncReadFails ==
    /\ sync_pc = "idle"
    /\ runs < MaxRuns
    /\ updates' = <<>>
    /\ snap' = review
    /\ batch_start' = 0
    /\ row' = 0
    /\ row_success' = 0
    /\ success_count' = 0
    /\ review_updates' = <<>>
    /\ written' = {}
    /\ wfail' = {}
    /\ call_failed' = TRUE
    /\ runs' = runs + 1
    /\ hist' = Append(hist, RunSummary(FALSE, <<>>, review, review, {}, TRUE))
    /\ UNCHANGED <<extVars, sync_pc, source, review, to_push, push_pc, rulesVars, kwVars, mineVars>>

\* the end of one iteration of the loop of lines 439-464
AfterSourceBatch(queue2, written2, failed2) ==
    IF batch_start + BatchSize < Len(updates)
    THEN /\ sync_pc' = "src_bulk"
         /\ batch_start' = batch_start + BatchSize
         /\ UNCHANGED <<extVars, runs, hist>>
    ELSE IF queue2 = <<>>
    THEN /\ sync_pc' = "idle"
         /\ batch_start' = 0
         /\ runs' = runs + 1
         /\ hist' = Append(hist, RunSummary(FALSE, updates, snap, review, written2, failed2))
    ELSE /\ sync_pc' = "rev_bulk"
         /\ batch_start' = 0
         /\ UNCHANGED <<extVars, runs, hist>>

\* the end of one iteration of the loop of lines 468-479
AfterReviewBatch(rev2, failed2) ==
    IF batch_start + BatchSize < Len(review_updates)
    THEN /\ sync_pc' = "rev_bulk"
         /\ batch_start' = batch_start + BatchSize
         /\ UNCHANGED <<extVars, runs, hist>>
    ELSE /\ sync_pc' = "idle"
         /\ batch_start' = 0
         /\ runs' = runs + 1
         /\ hist' = Append(hist, RunSummary(FALSE, updates, snap, rev2, written, failed2))

\* batch_update_records on the ledger table, the batch request of line 205.
\*   ok:       the store applies every record of the batch
\*   rejected: a non-zero code or an exception of the request; nothing is
\*             applied and the per-row fallback starts
\*   raised:   get_tenant_access_token raises at line 195, outside the try;
\*             sync_from_review catches it at line 463 and goes on
SourceBatchCall ==
    /\ sync_pc = "src_bulk"
    /\ LET batch == BatchOf(updates, batch_start)
           ids == {batch[k].review_record_id : k \in 1..Len(batch)}
       IN  \/ /\ source' = ApplyAll(source, batch)
              /\ written' = written \cup ids
              /\ success_count' = success_count + Len(batch)
              /\ review_updates' = review_updates \o Queued(batch)
              /\ AfterSourceBatch(review_updates', written', call_failed)
              /\ UNCHANGED <<extVars, row, row_success, wfail, call_failed>>
           \/ /\ sync_pc' = "src_row"
              /\ row' = 1
              /\ row_success' = 0
              /\ call_failed' = TRUE
              /\ UNCHANGED <<extVars, source, written, success_count, review_updates,
                             batch_start, wfail, runs, hist>>
           \/ /\ wfail' = wfail \cup ids
              /\ call_failed' = TRUE
              /\ AfterSourceBatch(review_updates, written, TRUE)
              /\ UNCHANGED <<extVars, source, written, success_count, review_updates,
                             row, row_success>>
    /\ UNCHANGED <<extVars, review, updates, snap, to_push, push_pc, rulesVars, kwVars, mineVars>>

\* _fallback_single_update on the ledger table: one PUT (lines 225-249); after
\* the last row the result is returned and lines 451-459 run
SourceRowCall ==
    /\ sync_pc = "src_row"
    /\ LET batch == BatchOf(updates, batch_start)
           u == batch[row]
           last == row = Len(batch)
       IN  \E ok \in BOOLEAN :
            /\ source' = IF ok THEN ApplyUpdate(source, u) ELSE source
            /\ written' = IF ok THEN written \cup {u.review_record_id} ELSE written
            /\ wfail' = IF ok THEN wfail ELSE wfail \cup {u.review_record_id}
            /\ IF last
               THEN /\ success_count' = success_count + row_success + (IF ok THEN 1 ELSE 0)
                    /\ review_updates' = review_updates \o Queued(batch)
                    /\ row' = 0
                    /\ row_success' = 0
                    /\ AfterSourceBatch(review_updates', written', TRUE)
               ELSE /\ row' = row + 1
                    /\ row_success' = row_success + (IF ok THEN 1 ELSE 0)
                    /\ UNCHANGED <<extVars, success_count, review_updates, sync_pc,
                                   batch_start, runs, hist>>
    /\ UNCHANGED <<extVars, review, updates, snap, call_failed, to_push, push_pc,
                   rulesVars, kwVars, mineVars>>

\* batch_update_records on the review table (line 472), the batch request;
\* the outcomes are those of SourceBatchCall, the result is not read
ReviewBatchCall ==
    /\ sync_pc = "rev_bulk"
    /\ LET batch == BatchOf(review_updates, batch_start)
       IN  \/ /\ review' = MarkSynced(review, SeqSet(batch))
              /\ AfterReviewBatch(review', call_failed)
              /\ UNCHANGED <<extVars, row, call_failed>>
           \/ /\ sync_pc' = "rev_row"
              /\ row' = 1
              /\ call_failed' = TRUE
              /\ UNCHANGED <<extVars, review, batch_start, runs, hist>>
           \/ /\ call_failed' = TRUE
              /\ AfterReviewBatch(review, TRUE)
              /\ UNCHANGED <<extVars, review, row>>
    /\ UNCHANGED <<extVars, source, updates, row_success, success_count, review_updates,
                   snap, written, wfail, to_push, push_pc, rulesVars, kwVars, mineVars>>

\* _fallback_single_update on the review table: one PUT
ReviewRowCall ==
    /\ sync_pc = "rev_row"
    /\ LET batch == BatchOf(review_updates, batch_start)
           last == row = Len(batch)
       IN  \E ok \in BOOLEAN :
            /\ review' = IF ok THEN MarkSynced(review, {batch[row]}) ELSE review
            /\ IF last
               THEN /\ row' = 0
                    /\ AfterReviewBatch(review', TRUE)
               ELSE /\ row' = row + 1
                    /\ UNCHANGED <<extVars, sync_pc, batch_start, runs, hist>>
    /\ UNCHANGED <<extVars, source, updates, row_success, success_count, review_updates,
                   snap, written, wfail, call_failed, to_push, push_pc,
                   rulesVars, kwVars, mineVars>>

SyncNext ==
    \/ SyncRead
    \/ SyncReadFails
    \/ SourceBatchCall
    \/ SourceRowCall
    \/ ReviewBatchCall
    \/ ReviewRowCall

\* the process is stopped between two store calls of a run; nothing is
\* written at that point.  The summary of such a run has the key interrupted.
Interrupt ==
    /\ sync_pc \in {"src_bulk", "src_row", "rev_bulk", "rev_row"}
    /\ sync_pc' = "idle"
    /\ runs' = runs + 1
    /\ LET s == RunSummary(FALSE, updates, snap, review, written, call_failed)
       IN  hist' = Append(hist, [dry |-> s.dry, selected |-> s.selected,
                                 written |-> s.written, synced |-> s.synced,
                                 failed |-> s.failed, interrupted |-> TRUE])
    /\ UNCHANGED <<extVars, source, review, updates, batch_start, row, row_success,
                   success_count, review_updates, snap, written, wfail, call_failed,
                   to_push, push_pc, rulesVars, kwVars, mineVars>>

SyncInterruptNext == SyncNext \/ Interrupt

(***************************************************************************)
(* Python dicts, as the list of their items in insertion order             *)
(***************************************************************************)
DictIdx(d, k) ==
    IF \E i \in 1..Len(d) : d[i].k = k
    THEN CHOOSE i \in 1..Len(d) : d[i].k = k
    ELSE 0

DictHas(d, k) == DictIdx(d, k) # 0

\* d.get(k, default)
DictGet(d, k, default) == IF DictHas(d, k) THEN d[DictIdx(d, k)].v ELSE default

\* d[k] += 1 on a defaultdict(int) or a Counter
DictInc(d, k) ==
    IF DictHas(d, k) THEN [d EXCEPT ![DictIdx(d, k)].v = @ + 1]
    ELSE Append(d, [k |-> k, v |-> 1])

\* d[k1][k2] += 1 on a defaultdict of defaultdicts
DictIncNested(d, k1, k2) ==
    IF DictHas(d, k1) THEN [d EXCEPT ![DictIdx(d, k1)].v = DictInc(@, k2)]
    ELSE Append(d, [k |-> k1, v |-> <<[k |-> k2, v |-> 1]>>])

\* reading d[k] on a defaultdict: a missing key is inserted with the default
DictTouch(d, k, default) ==
    IF DictHas(d, k) THEN d ELSE Append(d, [k |-> k, v |-> default])

RECURSIVE DictSum(_)
DictSum(d) == IF d = <<>> THEN 0 ELSE Head(d).v + DictSum(Tail(d))

\* dict equality does not look at the insertion order
DictItems(d) == {<<d[i].k, d[i].v>> : i \in 1..Len(d)}
NestedItems(d) == {<<d[i].k, DictItems(d[i].v)>> : i \in 1..Len(d)}

(***************************************************************************)
(* ExpenseClassifier (src/utils/expense_classifier.py)                     *)
(***************************************************************************)
\* stand-ins for two characters of the range U+4E00..U+9FFF
CjkChars == {"U5348", "U9910"}
Digits == {"0", "1", "2", "3", "4", "5", "6", "7", "8", "9"}

LowerChar(c) ==
    IF \E i \in 1..Len(UpperLetters) : UpperLetters[i] = c
    THEN LowerLetters[CHOOSE i \in 1..Len(UpperLetters) : UpperLetters[i] = c]
    ELSE c

\* str.lower()
lower(s) == [i \in 1..Len(s) |-> LowerChar(s[i])]

IsCjk(c) == c \in CjkChars
IsAlnum(c) ==
    \/ \E i \in 1..Len(LowerLetters) : LowerLetters[i] = c \/ UpperLetters[i] = c
    \/ c \in Digits

\* re.findall(r'[a-zA-Z0-9]+', s): the maximal runs, left to right
RECURSIVE AlnumRuns(_, _)
AlnumRuns(s, run) ==
    IF s = <<>> THEN (IF run = <<>> THEN <<>> ELSE <<run>>)
    ELSE IF IsAlnum(Head(s)) THEN AlnumRuns(Tail(s), Append(run, Head(s)))
    ELSE (IF run = <<>> THEN <<>> ELSE <<run>>) \o AlnumRuns(Tail(s), <<>>)

\* tokenize: every CJK character as a token of its own, then the lower-cased
\* runs of letters and digits
tokenize(text) ==
    IF text = <<>> THEN <<>>
    ELSE [i \in 1..Len(SelectSeq(text, IsCjk)) |-> <<SelectSeq(text, IsCjk)[i]>>]
         \o AlnumRuns(lower(text), <<>>)

\* __init__
NewClassifier ==
    [purpose_word_counts |-> <<>>, purpose_total_counts |-> <<>>,
     purpose_doc_counts |-> <<>>, purpose_vocab |-> {},
     subcat_word_counts |-> <<>>, subcat_total_counts |-> <<>>,
     subcat_doc_counts |-> <<>>, subcat_vocab |-> {},
     category_purpose_map |-> <<>>, category_subcat_map |-> <<>>,
     total_docs |-> 0, is_trained |-> FALSE]

\* one of the two classifiers the object holds (purpose, subcat)
FieldView(wc, tot, doc, vocab, cmap) ==
    [wc |-> wc, tot |-> tot, doc |-> doc, vocab |-> vocab, cmap |-> cmap]

PurposeView(m) ==
    FieldView(m.purpose_word_counts, m.purpose_total_counts, m.purpose_doc_counts,
              m.purpose_vocab, m.category_purpose_map)
SubcatView(m) ==
    FieldView(m.subcat_word_counts, m.subcat_total_counts, m.subcat_doc_counts,
              m.subcat_vocab, m.category_subcat_map)

WithPurposeView(m, v) ==
    [m EXCEPT !.purpose_word_counts = v.wc, !.purpose_total_counts = v.tot,
              !.purpose_doc_counts = v.doc, !.purpose_vocab = v.vocab,
              !.category_purpose_map = v.cmap]
WithSubcatView(m, v) ==
    [m EXCEPT !.subcat_word_counts = v.wc, !.subcat_total_counts = v.tot,
              !.subcat_doc_counts = v.doc, !.subcat_vocab = v.vocab,
              !.category_subcat_map = v.cmap]

\* the loop over tokens of lines 92-95 (101-104 for the subcat)
RECURSIVE CountTokens(_, _, _)
CountTokens(v, cls, tokens) ==
    IF tokens = <<>> THEN v
    ELSE CountTokens([v EXCEPT !.wc = DictIncNested(@, cls, Head(tokens)),
                               !.tot = DictInc(@, cls),
                               !.vocab = @ \cup {Head(tokens)}],
                     cls, Tail(tokens))

\* lines 90-99 (100-108): what one record adds to one of the two classifiers
TrainField(v, cls, category, tokens) ==
    IF cls = "" THEN v
    ELSE LET v1 == CountTokens([v EXCEPT !.doc = DictInc(@, cls)], cls, tokens)
         IN  IF category = "" THEN v1
             ELSE [v1 EXCEPT !.cmap = DictIncNested(@, category, cls)]

\* the body of the loop over expense_records
TrainRecord(m, rec) ==
    LET note == strip(rec.note)
        tokens == tokenize(note)
    IN  IF note = <<>> THEN m
        ELSE WithSubcatView(
                 WithPurposeView(m, TrainField(PurposeView(m), rec.purpose,
                                               rec.category, tokens)),
                 TrainField(SubcatView(m), rec.subcat, rec.category, tokens))

RECURSIVE TrainAll(_, _)
TrainAll(m, recs) ==
    IF recs = <<>> THEN m ELSE TrainAll(TrainRecord(m, Head(recs)), Tail(recs))

IsExpense(rec) == rec.direction = EXPENSE

\* ExpenseClassifier.train on the object m
train(m, records) ==
    LET expense_records == SelectSeq(records, IsExpense)
    IN  IF expense_records = <<>> THEN m
        ELSE [TrainAll([m EXCEPT !.total_docs = Len(expense_records)],
                       expense_records)
                 EXCEPT !.is_trained = TRUE]

\* arithmetic on the fractions that stand for the floats
RatLeq(a, b) == a.num * b.den <= b.num * a.den
RatMul(a, b) == [num |-> a.num * b.num, den |-> a.den * b.den]
RatAdd(a, b) == [num |-> a.num * b.den + b.num * a.den, den |-> a.den * b.den]
RatDiv(a, b) == [num |-> a.num * b.den, den |-> a.den * b.num]
RatZero == [num |-> 0, den |-> 1]
RatOne == [num |-> 1, den |-> 1]

\* lines 135-142: the prior, which is mixed 0.7 : 0.3 with the share of the class
\* among the records of the category when the category is known
Prior(v, total_docs, cls, category) ==
    LET base == [num |-> DictGet(v.doc, cls, 0), den |-> total_docs]
    IN  IF Truthy(category) /\ DictHas(v.cmap, category)
        THEN LET inner == DictGet(v.cmap, category, <<>>)
                 category_total == DictSum(inner)
                 n == DictGet(inner, cls, 0)
             IN  IF category_total > 0 /\ n > 0
                 THEN [num |-> 7 * n * base.den + 3 * base.num * category_total,
                       den |-> 10 * category_total * base.den]
                 ELSE base
        ELSE base

\* the denominator of the Laplace smoothing for a class
SmoothDen(v, cls) == DictGet(v.tot, cls, 0) + Cardinality(v.vocab)

\* lines 145-149: exp of the summed logs, i.e. the product of the smoothed shares
RECURSIVE Likelihood(_, _, _)
Likelihood(v, cls, tokens) ==
    IF tokens = <<>> THEN RatOne
    ELSE RatMul([num |-> DictGet(DictGet(v.wc, cls, <<>>), Head(tokens), 0) + 1,
                 den |-> SmoothDen(v, cls)],
                Likelihood(v, cls, Tail(tokens)))

\* exp(scores[cls])
Score(v, total_docs, cls, tokens, category) ==
    RatMul(Prior(v, total_docs, cls, category), Likelihood(v, cls, tokens))

\* the first class, in the order of doc_counts, whose smoothing divides by
\* zero; 0 when there is none
RaisesAt(v) ==
    LET bad == {i \in 1..Len(v.doc) : SmoothDen(v, v.doc[i].k) = 0}
    IN  IF bad = {} THEN 0 ELSE MinOf(bad)

\* the reads word_counts[cls] and total_counts[cls] of the loop insert the
\* missing keys into the two defaultdicts, for the classes the loop reached
RECURSIVE TouchUpTo(_, _)
TouchUpTo(v, n) ==
    IF n = 0 THEN v
    ELSE LET w == TouchUpTo(v, n - 1)
         IN  [w EXCEPT !.wc = DictTouch(@, v.doc[n].k, <<>>),
                       !.tot = DictTouch(@, v.doc[n].k, 0)]

\* lines 155-166 on the list kept by [:top_k]: exp(s - max_score) of every
\* kept class, divided by their sum; the value for the first of the list
RECURSIVE RatSum(_)
RatSum(qs) == IF qs = <<>> THEN RatZero ELSE RatAdd(Head(qs), RatSum(Tail(qs)))

SoftmaxMutOverAll(kept, all) ==
    LET exp_scores == [i \in 1..Len(all) |-> RatDiv(all[i], kept[1])]
        q == RatDiv(exp_scores[1], RatSum(exp_scores))
    IN  Ratio(q.num, q.den)
Softmax(kept, all) ==
    LET exp_scores == [i \in 1..Len(kept) |-> RatDiv(kept[i], kept[1])]
        q == RatDiv(exp_scores[1], RatSum(exp_scores))
    IN  Ratio(q.num, q.den)

\* predict_purpose / predict_subcat with top_k=1, as predict calls them: the
\* list returned (empty, or the top class with its probability), the object's
\* dicts after the call, or the ZeroDivisionError of line 149.  Scores are
\* compared exactly; classes whose scores are equal as fractions may come out
\* in either order of the float sums, so each of them can be the top one.
predict_field(v, total_docs, is_trained, note, category) ==
    LET tokens == tokenize(note)
        score(c) == Score(v, total_docs, c, tokens, category)
        classes == {v.doc[i].k : i \in 1..Len(v.doc)}
    IN  IF ~is_trained \/ v.doc = <<>> \/ tokens = <<>>
        THEN [kind |-> "none", v |-> v, top |-> {NONE}, confidence |-> RatZero]
        ELSE IF RaisesAt(v) # 0
        THEN [kind |-> "raise", v |-> TouchUpTo(v, RaisesAt(v)), top |-> {NONE},
              confidence |-> RatZero]
        ELSE LET best == {c \in classes : \A d \in classes : RatLeq(score(d), score(c))}
                 c1 == CHOOSE c \in best : TRUE
                 first == CHOOSE i \in 1..Len(v.doc) : v.doc[i].k = c1
                 others == SelectSeq(v.doc, LAMBDA e : e.k # c1)
                 all == <<score(c1)>> \o [i \in 1..Len(others) |-> score(others[i].k)]
             IN  [kind |-> "ok", v |-> TouchUpTo(v, Len(v.doc)), top |-> best,
                  confidence |-> Softmax(<<score(c1)>>, all)]

NoPrediction ==
    [raised |-> FALSE, purpose |-> NONE, subcat |-> NONE,
     purpose_confidence |-> RatZero, subcat_confidence |-> RatZero]

Raised == [NoPrediction EXCEPT !.raised = TRUE]

\* lines 241 and 249: the prediction is kept when confidence >= threshold
Accepted(f, threshold) == f.kind = "ok" /\ RatLeq(threshold, f.confidence)

\* ExpenseClassifier.predict: every pair of the object after the call and the
\* value returned
predict(m, note, category, threshold) ==
    LET pf == predict_field(PurposeView(m), m.total_docs, m.is_trained, note, category)
        m1 == WithPurposeView(m, pf.v)
        sf == predict_field(SubcatView(m1), m1.total_docs, m1.is_trained, note, category)
        m2 == WithSubcatView(m1, sf.v)
    IN  IF pf.kind = "raise" THEN {[model |-> m1, result |-> Raised]}
        ELSE IF sf.kind = "raise" THEN {[model |-> m2, result |-> Raised]}
        ELSE {[model |-> m2,
               result |->
                   [raised |-> FALSE,
                    purpose |-> IF Accepted(pf, threshold) THEN p ELSE NONE,
                    subcat |-> IF Accepted(sf, threshold) THEN sc ELSE NONE,
                    purpose_confidence |->
                        IF Accepted(pf, threshold) THEN pf.confidence ELSE RatZero,
                    subcat_confidence |->
                        IF Accepted(sf, threshold) THEN sf.confidence ELSE RatZero]] :
                 p \in pf.top, sc \in sf.top}

\* ---- inputs ----
TrainRecords ==
    {[direction |-> EXPENSE, note |-> <<"U5348", "a">>, category |-> "c",
      purpose |-> "p", subcat |-> "x"],
     [direction |-> EXPENSE, note |-> <<"a", "B">>, category |-> "c",
      purpose |-> "q", subcat |-> ""],
     [direction |-> EXPENSE, note |-> <<"-">>, category |-> "",
      purpose |-> "p", subcat |-> "x"],
     [direction |-> INCOME, note |-> <<"U5348">>, category |-> "c",
      purpose |-> "p", subcat |-> "x"]}

TrainCorpora == Seqs(TrainRecords, MaxTrainLen)

PredictNotes ==
    {<<>>, <<"-">>, <<"U5348">>, <<"U9910">>, <<"z">>, <<"a", "b">>, <<"U9910", "z">>}
PredictCategories == {NONE, "c", "d"}
\* the default 0.3, and 1
Thresholds == {[num |-> 3, den |-> 10], RatOne}

ClfInit ==
    /\ clf = NewClassifier
    /\ train_log = <<>>
    /\ p_note = <<>>
    /\ p_category = NONE
    /\ p_threshold = RatZero
    /\ p_result = NoPrediction
    /\ p_pc = "idle"

ClfOff ==
    /\ clf = NewClassifier
    /\ train_log = <<>>
    /\ p_note = <<>>
    /\ p_category = NONE
    /\ p_threshold = RatZero
    /\ p_result = NoPrediction
    /\ p_pc = "off"

Train ==
    /\ p_pc = "idle"
    /\ Len(train_log) < MaxTrainCalls
    /\ \E records \in TrainCorpora :
          /\ clf' = train(clf, records)
          /\ train_log' = Append(train_log, records)
    /\ UNCHANGED <<p_note, p_category, p_threshold, p_result, p_pc,
                   corrVars, toolVars, sync_dry, rulesVars, kwVars, mineVars, reviewVars>>

Predict ==
    /\ p_pc = "idle"
    /\ \E note \in PredictNotes, category \in PredictCategories,
          threshold \in Thresholds :
          \E o \in predict(clf, note, category, threshold) :
              /\ clf' = o.model
              /\ p_result' = o.result
              /\ p_note' = note
              /\ p_category' = category
              /\ p_threshold' = threshold
    /\ p_pc' = "predicted"
    /\ UNCHANGED <<train_log, corrVars, toolVars, sync_dry, rulesVars, kwVars, mineVars, reviewVars>>

ClfNext == Train \/ Predict

(***************************************************************************)
(* SmartCategorizer: the correction store and the categorizer              *)
(***************************************************************************)
\* Python's None as a counterparty or a field value
NoneText == <<NONE>>

MaxCpLen == 4
MaxLedger == 2
MaxPairLedger == 2
MaxCalls == 3

Jobs == {1, 2}

\* "UFF08" and "UFF09" stand for the full-width parentheses
IsOpenParen(c) == c = "(" \/ c = "UFF08"
IsCloseParen(c) == c = ")" \/ c = "UFF09"

\* every part from an opening parenthesis to the next closing one is removed
RECURSIVE RemoveParens(_)
RemoveParens(s) ==
    LET opens == {i \in 1..Len(s) :
                    /\ IsOpenParen(s[i])
                    /\ \E j \in (i + 1)..Len(s) : IsCloseParen(s[j])}
    IN  IF opens = {} THEN s
        ELSE LET i == MinOf(opens)
                 j == MinOf({k \in (i + 1)..Len(s) : IsCloseParen(s[k])})
             IN  SubSeq(s, 1, i - 1) \o RemoveParens(SubSeq(s, j + 1, Len(s)))

RemoveAsterisks(s) == SelectSeq(s, LAMBDA c : c # "*")

cleanMutTrimFirst(counterparty) ==
    IF counterparty = NoneText THEN <<>>
    ELSE RemoveAsterisks(RemoveParens(strip(counterparty)))

\* SmartCategorizer._clean_counterparty
clean(counterparty) ==
    IF counterparty = NoneText THEN <<>>
    ELSE strip(RemoveAsterisks(RemoveParens(counterparty)))

\* d[k] = v
DictSet(d, k, v) ==
    IF DictHas(d, k) THEN [d EXCEPT ![DictIdx(d, k)].v = v]
    ELSE Append(d, [k |-> k, v |-> v])

\* category names: U9910 U996E is the dining category, U5176 U4ED6 the
\* catch-all one, U5F85 U62A5 U9500 the one awaiting reimbursement
Catering == <<"U9910","U996E">>
Other == <<"U5176","U4ED6">>
Reimburse == <<"U5F85","U62A5","U9500">>
Coffee == <<"U5496","U5561">>
Fun == <<"U5A31","U4E50">>
Spend == <<"U6D88","U8D39">>

\* two of the counterparties that KEYWORD_RULES knows
Starbucks == <<"U661F","U5DF4","U514B">>
Haidilao == <<"U6D77","U5E95","U635E">>

KEYWORD_RULES ==
    << [keyword |-> Starbucks, category |-> Catering],
       [keyword |-> Haidilao, category |-> Catering] >>

\* the category of the first keyword rule found in the counterparty
KeywordCategory(counterparty) ==
    LET hits == {i \in 1..Len(KEYWORD_RULES) :
                    counterparty # NoneText
                    /\ Contains(KEYWORD_RULES[i].keyword, counterparty)}
    IN  IF hits = {} THEN Other ELSE KEYWORD_RULES[MinOf(hits)].category

categorizeMutRulesFirst(corrections, source_type, category, counterparty, is_income) ==
    IF KeywordCategory(counterparty) # Other THEN KeywordCategory(counterparty)
    ELSE DictGet(corrections, clean(counterparty), Other)

\* SmartCategorizer.categorize, on the corrections it has just loaded: a
\* correction for the cleaned counterparty wins, the keyword rules come next
categorize(corrections, source_type, category, counterparty, is_income) ==
    IF DictHas(corrections, clean(counterparty))
    THEN DictGet(corrections, clean(counterparty), Other)
    ELSE KeywordCategory(counterparty)

add_correctionMutRawKey(corrections, counterparty, category) ==
    DictSet(corrections, counterparty, category)

\* SmartCategorizer.add_correction: the dict after the call, which is also
\* what the call saves to the corrections file
add_correction(corrections, counterparty, category) ==
    DictSet(corrections, clean(counterparty), category)

(***************************************************************************)
(* learn_from_ledger: the loop over the records of one ledger              *)
(***************************************************************************)
\* str(x).strip() if x else ""
FieldStr(x) == IF x = NoneText \/ x = <<>> THEN <<>> ELSE strip(x)

DoNotLearn == {Other, Reimburse}

\* the two `continue` tests
Skips(counterparty_str, feishu_category_str) ==
    \/ counterparty_str = <<>>
    \/ feishu_category_str = <<>>
    \/ feishu_category_str \in DoNotLearn

DisagreesMutAlways(prediction, feishu_category_str) == TRUE
DisagreesMutNever(prediction, feishu_category_str) == FALSE

\* local_prediction != feishu_category_str
Disagrees(prediction, feishu_category_str) == prediction # feishu_category_str

NextPc(j) == IF l_idx[j] + 1 > Len(ledger[j]) THEN "done" ELSE "record"

LogEntry(j, rec, skipped, prediction, added, file_after, learned_after) ==
    [job |-> j, counterparty |-> rec.counterparty, category |-> rec.category,
     skipped |-> skipped, prediction |-> prediction, added |-> added,
     file_before |-> corr_file, file_after |-> file_after,
     learned_before |-> learned_count[j], learned_after |-> learned_after]

\* the loop body up to the categorize call: the two skip tests, then the
\* baseline prediction, for which the categorizer loads the corrections file
LearnCheck ==
    /\ corr_mode = "learn"
    /\ \E j \in Jobs :
        /\ l_pc[j] = "record"
        /\ LET rec == ledger[j][l_idx[j]]
               feishu_category_str == FieldStr(rec.category)
               counterparty_str == FieldStr(rec.counterparty)
           IN  IF Skips(counterparty_str, feishu_category_str)
               THEN /\ l_idx' = [l_idx EXCEPT ![j] = @ + 1]
                    /\ l_pc' = [l_pc EXCEPT ![j] = NextPc(j)]
                    /\ learn_log' = Append(learn_log,
                           LogEntry(j, rec, TRUE, NoneText, FALSE, corr_file,
                                    learned_count[j]))
                    /\ UNCHANGED <<corr_mem, local_prediction>>
               ELSE /\ corr_mem' = [corr_mem EXCEPT ![j] = corr_file]
                    /\ local_prediction' = [local_prediction EXCEPT ![j] =
                           categorize(corr_file, "unknown", <<>>,
                                      counterparty_str, FALSE)]
                    /\ l_pc' = [l_pc EXCEPT ![j] = "compare"]
                    /\ UNCHANGED <<l_idx, learn_log>>
    /\ UNCHANGED <<corr_file, corr_mode, ledger, learned_count, api_log,
                   clean_log, clfVars, toolVars, sync_dry, rulesVars, kwVars, mineVars, reviewVars>>

\* the rest of the loop body: the comparison, and on a disagreement the
\* add_correction call, which saves the whole dict of this process
LearnCompare ==
    /\ corr_mode = "learn"
    /\ \E j \in Jobs :
        /\ l_pc[j] = "compare"
        /\ LET rec == ledger[j][l_idx[j]]
               feishu_category_str == FieldStr(rec.category)
               counterparty_str == FieldStr(rec.counterparty)
               saved == add_correction(corr_mem[j], counterparty_str,
                                       feishu_category_str)
           IN  IF Disagrees(local_prediction[j], feishu_category_str)
               THEN /\ corr_mem' = [corr_mem EXCEPT ![j] = saved]
                    /\ corr_file' = saved
                    /\ learned_count' = [learned_count EXCEPT ![j] = @ + 1]
                    /\ learn_log' = Append(learn_log,
                           LogEntry(j, rec, FALSE, local_prediction[j], TRUE,
                                    saved, learned_count[j] + 1))
               ELSE /\ learn_log' = Append(learn_log,
                           LogEntry(j, rec, FALSE, local_prediction[j], FALSE,
                                    corr_file, learned_count[j]))
                    /\ UNCHANGED <<corr_mem, corr_file, learned_count>>
        /\ l_idx' = [l_idx EXCEPT ![j] = @ + 1]
        /\ l_pc' = [l_pc EXCEPT ![j] = NextPc(j)]
    /\ UNCHANGED <<corr_mode, ledger, local_prediction, api_log, clean_log,
                   clfVars, toolVars, sync_dry, rulesVars, kwVars, mineVars, reviewVars>>

LearnNext == LearnCheck \/ LearnCompare

LedgerCounterparties == {NoneText, Starbucks, <<"T">>, <<"T","*">>, <<"*">>}
LedgerCategories == {NoneText, <<" ">>, Catering, Other, Reimburse, Coffee}
LearnRecords ==
    [counterparty : LedgerCounterparties, category : LedgerCategories]

\* the corrections file a job may find when it starts
StoredFiles == {<<>>, <<[k |-> <<"T">>, v |-> Coffee]>>}

StartPc(records) == IF records = <<>> THEN "done" ELSE "record"

LogsEmpty ==
    /\ learn_log = <<>>
    /\ api_log = <<>>
    /\ clean_log = <<>>

\* one learning job on one ledger
LearnInit ==
    /\ corr_mode = "learn"
    /\ corr_file \in StoredFiles
    /\ corr_mem = [j \in Jobs |-> corr_file]
    /\ \E records \in Seqs(LearnRecords, MaxLedger) :
          /\ ledger = [j \in Jobs |-> IF j = 1 THEN records ELSE <<>>]
          /\ l_pc = [j \in Jobs |-> IF j = 1 THEN StartPc(records) ELSE "off"]
    /\ l_idx = [j \in Jobs |-> 1]
    /\ local_prediction = [j \in Jobs |-> NoneText]
    /\ learned_count = [j \in Jobs |-> 0]
    /\ LogsEmpty

\* one ledger learned twice: the second pass is a new run of the script, on
\* the ledger as it was, started when the first has ended
LearnTwiceInit ==
    /\ corr_mode = "learn"
    /\ corr_file \in StoredFiles
    /\ corr_mem = [j \in Jobs |-> corr_file]
    /\ \E records \in Seqs(LearnRecords, MaxLedger) :
          /\ ledger = [j \in Jobs |-> records]
          /\ l_pc = [j \in Jobs |-> IF j = 1 THEN StartPc(records) ELSE "wait"]
    /\ l_idx = [j \in Jobs |-> 1]
    /\ local_prediction = [j \in Jobs |-> NoneText]
    /\ learned_count = [j \in Jobs |-> 0]
    /\ LogsEmpty

\* the second run starts: a new process, which finds the corrections file
\* the first run left
LearnAgain ==
    /\ corr_mode = "learn"
    /\ l_pc[1] = "done"
    /\ l_pc[2] = "wait"
    /\ l_pc' = [l_pc EXCEPT ![2] = StartPc(ledger[2])]
    /\ corr_mem' = [corr_mem EXCEPT ![2] = corr_file]
    /\ UNCHANGED <<corr_file, corr_mode, ledger, l_idx, local_prediction,
                   learned_count, learn_log, api_log, clean_log, clfVars, toolVars,
                   sync_dry, rulesVars, kwVars, mineVars, reviewVars>>

LearnTwiceNext == LearnCheck \/ LearnCompare \/ LearnAgain

PairCounterparties == {Starbucks, <<"T">>, <<"T","*">>}
PairCategories == {Coffee, Fun}
PairRecords == [counterparty : PairCounterparties, category : PairCategories]

\* two learning jobs, each a process of its own, on the same corrections file
LearnPairInit ==
    /\ corr_mode = "learn"
    /\ corr_file = <<>>
    /\ corr_mem = [j \in Jobs |-> <<>>]
    /\ ledger \in [Jobs -> Seqs(PairRecords, MaxPairLedger)]
    /\ l_pc = [j \in Jobs |-> StartPc(ledger[j])]
    /\ l_idx = [j \in Jobs |-> 1]
    /\ local_prediction = [j \in Jobs |-> NoneText]
    /\ learned_count = [j \in Jobs |-> 0]
    /\ LogsEmpty

(***************************************************************************)
(* SmartCategorizer called directly, as its tests call it                  *)
(***************************************************************************)
StoreCounterparties ==
    {Starbucks, Starbucks \o <<"UFF08","1","UFF09">>, <<"T">>}
StoreCategories == {Coffee, Fun}
SourceTypes == {"wechat", "unknown"}
SeedCategories == {<<>>, Spend}

StoreIdle ==
    /\ ledger = [j \in Jobs |-> <<>>]
    /\ l_pc = [j \in Jobs |-> "off"]
    /\ l_idx = [j \in Jobs |-> 1]
    /\ local_prediction = [j \in Jobs |-> NoneText]
    /\ learned_count = [j \in Jobs |-> 0]
    /\ LogsEmpty

StoreInit ==
    /\ corr_mode = "api"
    /\ corr_file = <<>>
    /\ corr_mem = [j \in Jobs |-> <<>>]
    /\ StoreIdle

\* SmartCategorizer.add_correction(counterparty, category)
AddCorrection ==
    /\ corr_mode = "api"
    /\ Len(api_log) < MaxCalls
    /\ \E counterparty \in StoreCounterparties, category \in StoreCategories :
          LET saved == add_correction(corr_mem[1], counterparty, category)
          IN  /\ corr_mem' = [corr_mem EXCEPT ![1] = saved]
              /\ corr_file' = saved
              /\ api_log' = Append(api_log,
                     [op |-> "add", counterparty |-> counterparty,
                      category |-> category, source_type |-> "",
                      is_income |-> FALSE, result |-> NoneText,
                      file |-> saved])
    /\ UNCHANGED <<corr_mode, ledger, l_idx, l_pc, local_prediction,
                   learned_count, learn_log, clean_log,
                   clfVars, toolVars, sync_dry, rulesVars, kwVars, mineVars, reviewVars>>

\* SmartCategorizer.categorize(source_type, category, counterparty, is_income)
Categorize ==
    /\ corr_mode = "api"
    /\ Len(api_log) < MaxCalls
    /\ \E source_type \in SourceTypes, category \in SeedCategories,
          counterparty \in StoreCounterparties, is_income \in BOOLEAN :
          /\ corr_mem' = [corr_mem EXCEPT ![1] = corr_file]
          /\ api_log' = Append(api_log,
                 [op |-> "categorize", counterparty |-> counterparty,
                  category |-> category, source_type |-> source_type,
                  is_income |-> is_income,
                  result |-> categorize(corr_file, source_type, category,
                                        counterparty, is_income),
                  file |-> corr_file])
    /\ UNCHANGED <<corr_file, corr_mode, ledger, l_idx, l_pc, local_prediction,
                   learned_count, learn_log, clean_log,
                   clfVars, toolVars, sync_dry, rulesVars, kwVars, mineVars, reviewVars>>

StoreNext == AddCorrection \/ Categorize

(***************************************************************************)
(* _clean_counterparty called directly                                     *)
(***************************************************************************)
CpChars == {"T", "1", " ", "(", ")", "UFF08", "UFF09", "*"}

TestAscii == <<"T","e","s","t"," ","(","1","2","3",")">>
TestWide == <<"T","e","s","t"," ","UFF08","1","2","3","UFF09">>
TestStar == <<"T","e","s","t","*","1","2","3">>
TestPadded == <<" ","T","e","s","t"," ">>
TestClean == <<"T","e","s","t">>
TestStarClean == <<"T","e","s","t","1","2","3">>

CleanInputs ==
    Seqs(CpChars, MaxCpLen)
        \cup {NoneText, TestAscii, TestWide, TestStar, TestPadded}

CleanInit ==
    /\ corr_mode = "clean"
    /\ corr_file = <<>>
    /\ corr_mem = [j \in Jobs |-> <<>>]
    /\ StoreIdle

\* _clean_counterparty(x) on a fresh input
CleanCall ==
    /\ corr_mode = "clean"
    /\ clean_log = <<>>
    /\ \E x \in CleanInputs :
          clean_log' = <<[arg |-> x, out |-> clean(x)]>>
    /\ UNCHANGED <<corr_file, corr_mem, corr_mode, ledger, l_idx, l_pc,
                   local_prediction, learned_count, learn_log, api_log,
                   clfVars, toolVars, sync_dry, rulesVars, kwVars, mineVars, reviewVars>>

\* _clean_counterparty on what the previous call returned
CleanAgain ==
    /\ corr_mode = "clean"
    /\ Len(clean_log) = 1
    /\ clean_log' = Append(clean_log,
           [arg |-> clean_log[1].out, out |-> clean(clean_log[1].out)])
    /\ UNCHANGED <<corr_file, corr_mem, corr_mode, ledger, l_idx, l_pc,
                   local_prediction, learned_count, learn_log, api_log,
                   clfVars, toolVars, sync_dry, rulesVars, kwVars, mineVars, reviewVars>>

CleanNext == CleanCall \/ CleanAgain

CorrOff ==
    /\ corr_mode = "off"
    /\ corr_file = <<>>
    /\ corr_mem = [j \in Jobs |-> <<>>]
    /\ StoreIdle

(***************************************************************************)
(* backfill_counterparty: extract_counterparty_from_note                   *)
(***************************************************************************)
MaxExtractLen == 3

HasDash(s) == \E i \in 1..Len(s) : s[i] = "-"

AfterDashMutLast(s) ==
    SubSeq(s, MaxOf({i \in 1..Len(s) : s[i] = "-"}) + 1, Len(s))

\* note.split('-', 1)[1], for a note with a '-'
AfterDash(s) ==
    SubSeq(s, MinOf({i \in 1..Len(s) : s[i] = "-"}) + 1, Len(s))

\* category.strip() if category else ""
CategoryStr(category) ==
    IF category = NoneText \/ category = <<>> THEN <<>> ELSE strip(category)

extract_counterparty_from_note(note, category) ==
    IF note = NoneText \/ note = <<>> THEN NoneText
    ELSE LET n == strip(note)
             c == CategoryStr(category)
         IN  IF HasDash(n) /\ strip(AfterDash(n)) # <<>>
             THEN strip(AfterDash(n))
             ELSE IF n # c THEN n ELSE NoneText

\* U4EA4 U901A is the transport category, U5730 U94C1 the underground
Traffic == <<"U4EA4","U901A">>
TrafficMetro == <<"U4EA4","U901A","-","U5730","U94C1">>
Metro == <<"U5730","U94C1">>

ExtractNotes ==
    Seqs({"a", "b", "-", " "}, MaxExtractLen)
        \cup {NoneText, TrafficMetro, Starbucks, Spend}
ExtractCategories ==
    Seqs({"a", "-", " "}, MaxExtractLen - 1) \cup {NoneText, Traffic, Spend}

ExtractInit ==
    /\ x_note = <<>>
    /\ x_category = <<>>
    /\ x_result = NoneText
    /\ x_pc = "new"

ExtractOff ==
    /\ x_note = <<>>
    /\ x_category = <<>>
    /\ x_result = NoneText
    /\ x_pc = "off"

ExtractCounterparty ==
    /\ x_pc = "new"
    /\ \E note \in ExtractNotes, category \in ExtractCategories :
          /\ x_note' = note
          /\ x_category' = category
          /\ x_result' = extract_counterparty_from_note(note, category)
    /\ x_pc' = "done"
    /\ UNCHANGED notXVars

ExtractNext == ExtractCounterparty

(***************************************************************************)
(* fill_by_rules and apply_validation                                      *)
(***************************************************************************)
MaxValRows == 2
DefaultMaxFill == 500

\* str(v).strip() on a field value; " " is a value made of blanks only
StripLabel(v) == IF v = " " THEN "" ELSE v

\* fill_by_rules lines 132-175: the to_fill entry one record contributes
FillItem(id, rec, overwrite) ==
    LET note == strip(rec.note)
        category == strip(rec.category)
        current_purpose == StripLabel(rec.purpose)
        current_subcat == StripLabel(rec.subcat)
    IN  IF rec.direction # EXPENSE THEN <<>>
        ELSE IF note = <<>> \/ category = <<>> THEN <<>>
        ELSE IF ~(overwrite \/ current_purpose = "" \/ current_subcat = "") THEN <<>>
        ELSE <<[record_id |-> id, note |-> note, category |-> category,
                current_purpose |-> current_purpose,
                current_subcat |-> current_subcat]>>

RECURSIVE BuildToFill(_, _, _, _)
BuildToFill(src, k, overwrite, max_fill) ==
    IF k > Cardinality(DOMAIN src) \/ max_fill <= 0 THEN <<>>
    ELSE LET item == FillItem(RecIdSeq[k], src[RecIdSeq[k]], overwrite)
         IN  item \o BuildToFill(src, k + 1, overwrite, max_fill - Len(item))

KeepsCurrentMutNever(overwrite, current) == FALSE

\* lines 205-211: a field that has a value is left out unless overwrite is set
KeepsCurrent(overwrite, current) == ~overwrite /\ current # ""

\* fill_by_rules lines 188-220: the update one to_fill entry contributes; a
\* field of the update that is "" stands for a key left out of new_fields
FillUpdateOf(item, rules, overwrite) ==
    LET pred == match(rules, item.note, item.category)
        purpose == IF Truthy(pred[1]) /\ ~KeepsCurrent(overwrite, item.current_purpose)
                   THEN pred[1] ELSE ""
        subcat == IF Truthy(pred[2]) /\ ~KeepsCurrent(overwrite, item.current_subcat)
                  THEN pred[2] ELSE ""
    IN  IF ~Truthy(pred[1]) /\ ~Truthy(pred[2]) THEN <<>>
        ELSE IF purpose = "" /\ subcat = "" THEN <<>>
        ELSE <<[record_id |-> item.record_id, purpose |-> purpose, subcat |-> subcat]>>

RECURSIVE FillUpdates(_, _, _)
FillUpdates(to_fill, rules, overwrite) ==
    IF to_fill = <<>> THEN <<>>
    ELSE FillUpdateOf(Head(to_fill), rules, overwrite)
             \o FillUpdates(Tail(to_fill), rules, overwrite)

WritesMutNoPrompt(dry_run, confirm, ups) == ~dry_run /\ ups # <<>>

\* the write is reached when dry_run is off, there is something to write and
\* the operator typed y or Y: confirm.lower() != 'y' cancels
Writes(dry_run, confirm, ups) ==
    ~dry_run /\ ups # <<>> /\ lower(confirm) = <<"y">>

\* y, Y, the empty line that stands for the default N, and yes
Answers == {<<"y">>, <<"Y">>, <<>>, <<"y", "e", "s">>}

\* expense records a rule can match, with every mix of empty, blank and
\* present labels; an expense record no rule matches; an income record
FillRecords ==
    [direction : {EXPENSE}, note : {<<"a">>}, category : {<<"c">>},
     purpose : {"", " ", "q"}, subcat : {"", "y"}]
    \cup {[direction |-> EXPENSE, note |-> <<"b">>, category |-> <<"c">>,
           purpose |-> "", subcat |-> ""],
          [direction |-> INCOME, note |-> <<"a">>, category |-> <<"c">>,
           purpose |-> "", subcat |-> ""]}

FillLimits == {1, DefaultMaxFill}

FillLocalsInit ==
    /\ f_dry = TRUE
    /\ f_overwrite = FALSE
    /\ f_max_fill = DefaultMaxFill
    /\ f_confirm = <<>>
    /\ f_updates = <<>>
    /\ f_before = <<>>

FillOff == FillLocalsInit /\ f_pc = "off"

\* fill_by_rules, the whole call.  The batches of batch_update_records
\* together apply all of `updates`, none, or the ones whose single update
\* succeeded in the per-row fallback: any part of it.
FillByRules ==
    /\ f_pc = "new"
    /\ \E dry_run \in BOOLEAN, overwrite \in BOOLEAN, max_fill \in FillLimits,
          confirm \in Answers :
          LET rules == load_rules(rules_file)
              to_fill == BuildToFill(source, 1, overwrite, max_fill)
              ups == FillUpdates(to_fill, rules, overwrite)
          IN  /\ f_dry' = dry_run
              /\ f_overwrite' = overwrite
              /\ f_max_fill' = max_fill
              /\ f_confirm' = confirm
              /\ f_updates' = ups
              /\ f_before' = source
              /\ IF Writes(dry_run, confirm, ups)
                 THEN \E applied \in SUBSET (1..Len(ups)) :
                         source' = ApplyAll(source, SelectIdx(ups, applied, 1))
                 ELSE source' = source
    /\ f_pc' = "done"
    /\ UNCHANGED notFillVars

UPDATE_TEXT == <<"U","P","D","A","T","E">>

\* apply_validation lines 60-86: the update one CSV row contributes
ValUpdateOf(r) ==
    IF upper(strip(r.action)) # UPDATE_TEXT THEN <<>>
    ELSE IF r.predicted_purpose = "" /\ r.predicted_subcat = "" THEN <<>>
    ELSE <<[record_id |-> r.record_id, purpose |-> r.predicted_purpose,
            subcat |-> r.predicted_subcat]>>

RECURSIVE ValUpdates(_)
ValUpdates(rows) ==
    IF rows = <<>> THEN <<>> ELSE ValUpdateOf(Head(rows)) \o ValUpdates(Tail(rows))

ValActions == {UPDATE_TEXT, <<" ","u","p","d","a","t","e">>, <<"K","E","E","P">>}

ValRows ==
    [record_id : {"r1", "r2"}, action : ValActions,
     predicted_purpose : {"", "p"}, predicted_subcat : {"", "x"}]

ValLocalsInit ==
    /\ v_dry = TRUE
    /\ v_confirm = <<>>
    /\ v_updates = <<>>

ValOff == ValLocalsInit /\ v_file = <<>> /\ v_pc = "off"

\* apply_validation, the whole call; the batches write any part of `updates`
ApplyValidation ==
    /\ v_pc = "new"
    /\ \E dry_run \in BOOLEAN, confirm \in Answers :
          LET ups == ValUpdates(v_file)
          IN  /\ v_dry' = dry_run
              /\ v_confirm' = confirm
              /\ v_updates' = ups
              /\ IF Writes(dry_run, confirm, ups)
                 THEN \E applied \in SUBSET (1..Len(ups)) :
                         source' = ApplyAll(source, SelectIdx(ups, applied, 1))
                 ELSE source' = source
    /\ v_pc' = "done"
    /\ UNCHANGED <<v_file, f_dry, f_overwrite, f_max_fill, f_confirm, f_updates,
                   f_before, f_pc, rulesVars, kwVars, mineVars, review, pushVars,
                   syncVars, clfVars, corrVars, sync_dry, xVars, apiVars>>

TwoRecordLedger ==
    [r \in SyncRecIds |->
        [direction |-> EXPENSE, note |-> <<"a">>, category |-> <<"c">>,
         purpose |-> "p0", subcat |-> "x0"]]

NoRules ==
    /\ rules_file = [has_enabled |-> FALSE, rows |-> <<>>]
    /\ matcher_rules = <<>>
    /\ m_note = <<>>
    /\ m_category = <<>>
    /\ m_result = <<NONE, NONE>>
    /\ m_pc = "off"

\* one of the three write-back tools is about to run on its tables
ToolsInit ==
    /\ sync_dry = TRUE
    /\ \/ /\ NoRules
          /\ SyncInit
          /\ FillOff
          /\ ValOff
       \/ /\ rules_file \in
                [has_enabled : {TRUE}, rows : Seqs(PushRuleRows, MaxPushRows)]
          /\ matcher_rules = <<>>
          /\ m_note = <<>>
          /\ m_category = <<>>
          /\ m_result = <<NONE, NONE>>
          /\ m_pc = "off"
          /\ source \in [SyncRecIds -> FillRecords]
          /\ review = <<>>
          /\ to_push = <<>>
          /\ push_pc = "off"
          /\ SyncIdle
          /\ FillLocalsInit
          /\ f_pc = "new"
          /\ ValOff
       \/ /\ NoRules
          /\ source = TwoRecordLedger
          /\ review = <<>>
          /\ to_push = <<>>
          /\ push_pc = "off"
          /\ SyncIdle
          /\ FillOff
          /\ ValLocalsInit
          /\ v_file \in Seqs(ValRows, MaxValRows)
          /\ v_pc = "new"

(***************************************************************************)
(* FeishuClient._api_call_with_retry                                       *)
(***************************************************************************)
DefaultMaxRetries == 3
RowMaxRetries == 2

\* the codes the wrapper takes for rate limiting
RateLimitCodes == {99991400, 99991664}

\* what one request gives: a JSON body with its "code" (has_code FALSE: the
\* body has no such key), or an exception out of requests or out of .json()
Responses ==
    [exc : {NONE}, has_code : {TRUE}, code : {0, 99991400, 99991664, 1254000}]
    \cup {[exc |-> NONE, has_code |-> FALSE, code |-> 0]}
    \cup [exc : {"Timeout", "RequestException", "ValueError"},
          has_code : {FALSE}, code : {0}]

\* nothing returned or raised yet
NoResponse == [exc |-> "unset", has_code |-> FALSE, code |-> 0]

\* result.get("code", 0)
CodeOf(resp) == IF resp.has_code THEN resp.code ELSE 0

IsRequestException(resp) == resp.exc \in {"Timeout", "RequestException"}

LastAttempt(attempt, max_retries) == ~(attempt < max_retries - 1)

TriesAgainMutAlways(resp, attempt, max_retries) ==
    \/ IsRequestException(resp)
    \/ resp.exc = NONE /\ CodeOf(resp) \in RateLimitCodes

\* lines 83-101: the three `continue` of the loop
TriesAgain(resp, attempt, max_retries) ==
    /\ ~LastAttempt(attempt, max_retries)
    /\ \/ IsRequestException(resp)
       \/ resp.exc = NONE /\ CodeOf(resp) \in RateLimitCodes

RECURSIVE Pow2(_)
Pow2(n) == IF n = 0 THEN 1 ELSE 2 * Pow2(n - 1)

RetryLimits == {0, 1, RowMaxRetries, DefaultMaxRetries}

RetryLocalsInit ==
    /\ a_attempt = 0
    /\ a_seen = <<>>
    /\ a_slept = <<>>
    /\ a_result = NoResponse

RetryInit == a_max \in RetryLimits /\ a_pc = "loop" /\ RetryLocalsInit

RetryOff == a_max = DefaultMaxRetries /\ a_pc = "off" /\ RetryLocalsInit

\* one iteration of `for attempt in range(max_retries)`: the request, then
\* return, raise, or sleep and continue
Attempt ==
    /\ a_pc = "loop"
    /\ a_attempt < a_max
    /\ \E resp \in Responses :
          /\ a_seen' = Append(a_seen, resp)
          /\ IF TriesAgain(resp, a_attempt, a_max)
             THEN /\ a_slept' = Append(a_slept, Pow2(a_attempt))
                  /\ a_attempt' = a_attempt + 1
                  /\ a_pc' = "loop"
                  /\ a_result' = a_result
             ELSE /\ a_slept' = a_slept
                  /\ a_attempt' = a_attempt
                  /\ a_pc' = IF resp.exc = NONE THEN "returned" ELSE "raised"
                  /\ a_result' = resp
    /\ UNCHANGED <<a_max, batchVars, coreVars, sync_dry, xVars, fillVars, valVars, impVars>>

\* line 106: the loop ran out, which happens only for max_retries = 0
Exhausted ==
    /\ a_pc = "loop"
    /\ ~(a_attempt < a_max)
    /\ a_pc' = "raised"
    /\ a_result' = [exc |-> "Exception", has_code |-> FALSE, code |-> 0]
    /\ UNCHANGED <<a_max, a_attempt, a_seen, a_slept, batchVars, coreVars, sync_dry,
                   xVars, fillVars, valVars, impVars>>

RetryNext == Attempt \/ Exhausted

(***************************************************************************)
(* FeishuClient.batch_create_records / batch_update_records and their      *)
(* one-by-one fallbacks.  A call through _api_call_with_retry ends in one  *)
(* of three ways: a body with code 0, a body with another code, a raise.   *)
(***************************************************************************)
MaxBatch == 3

CallOutcomes == {"ok", "code", "raise"}

\* a record of the batch: record_id "" stands for a missing or empty id
BatchRecords == [record_id : {"", "r1"}]

NoResult == [success |-> 0, failed |-> 0, errors |-> <<>>]

\* the row outcome as the fallback loop sees it: an update without record_id
\* makes no request
RowOutcome(kind, rec, out) ==
    IF kind = "update" /\ rec.record_id = "" THEN "missing_id" ELSE out

CountRowMutSilentMissingId(res, i, outcome) ==
    IF outcome = "ok" THEN [res EXCEPT !.success = @ + 1]
    ELSE IF outcome = "missing_id" THEN [res EXCEPT !.failed = @ + 1]
    ELSE [res EXCEPT !.failed = @ + 1,
                     !.errors = Append(@, [index |-> i, why |-> outcome])]

\* lines 161-180 and 224-249: one pass of the fallback loop; i is the index
\* enumerate() gives, from 0
CountRow(res, i, outcome) ==
    IF outcome = "ok" THEN [res EXCEPT !.success = @ + 1]
    ELSE [res EXCEPT !.failed = @ + 1,
                     !.errors = Append(@, [index |-> i, why |-> outcome])]

BatchLocalsInit ==
    /\ b_i = 0
    /\ b_outcomes = <<>>
    /\ b_result = NoResult

BatchInit ==
    /\ b_kind \in {"create", "update"}
    /\ b_records \in Seqs(BatchRecords, MaxBatch)
    /\ b_pc = "new"
    /\ BatchLocalsInit

BatchOff == b_kind = "create" /\ b_records = <<>> /\ b_pc = "off" /\ BatchLocalsInit

\* get_tenant_access_token raises while the headers of the bulk request are
\* built, before the try: the call raises
BatchTokenFails ==
    /\ b_pc = "new"
    /\ b_pc' = "raised"
    /\ UNCHANGED <<b_kind, b_records, b_i, b_outcomes, b_result, retryVars, coreVars,
                   sync_dry, xVars, fillVars, valVars, impVars>>

\* lines 126-152 and 203-214: the bulk request.  `created` is the number of
\* records the body of a code-0 answer lists.
BatchCall ==
    /\ b_pc = "new"
    /\ \E out \in CallOutcomes, created \in 0..Len(b_records) :
          IF out # "ok"
          THEN /\ b_pc' = IF b_records = <<>> THEN "done" ELSE "fallback"
               /\ b_result' = NoResult
          ELSE /\ b_pc' = "bulk_done"
               /\ b_result' =
                    IF b_kind = "update"
                    THEN [success |-> Len(b_records), failed |-> 0, errors |-> <<>>]
                    ELSE IF created = 0
                    THEN [success |-> 0, failed |-> Len(b_records),
                          errors |-> <<[index |-> -1, why |-> "no records"]>>]
                    ELSE [success |-> created, failed |-> 0, errors |-> <<>>]
    /\ UNCHANGED <<b_kind, b_records, b_i, b_outcomes, retryVars, coreVars,
                   sync_dry, xVars, fillVars, valVars, impVars>>

\* one pass of the loop of _fallback_single_create / _fallback_single_update
FallbackRow ==
    /\ b_pc = "fallback"
    /\ b_i < Len(b_records)
    /\ \E out \in CallOutcomes :
          LET outcome == RowOutcome(b_kind, b_records[b_i + 1], out)
          IN  /\ b_outcomes' = Append(b_outcomes, outcome)
              /\ b_result' = CountRow(b_result, b_i, outcome)
    /\ b_i' = b_i + 1
    /\ b_pc' = IF b_i + 1 = Len(b_records) THEN "done" ELSE "fallback"
    /\ UNCHANGED <<b_kind, b_records, retryVars, coreVars, sync_dry, xVars,
                   fillVars, valVars, impVars>>

BatchNext == BatchTokenFails \/ BatchCall \/ FallbackRow

(***************************************************************************)
(* import_account_bills, for one source of one account                     *)
(***************************************************************************)
MaxImport == 3
MaxDate == 3

Max2(a, b) == IF a >= b THEN a ELSE b

\* insertion after the entries that are not greater: list.sort is stable
RECURSIVE InsertByDate(_, _)
InsertByDate(sorted, d) ==
    IF sorted = <<>> THEN <<d>>
    ELSE IF Head(sorted) <= d THEN <<Head(sorted)>> \o InsertByDate(Tail(sorted), d)
    ELSE <<d>> \o sorted

RECURSIVE SortByDate(_)
SortByDate(ds) ==
    IF ds = <<>> THEN <<>>
    ELSE InsertByDate(SortByDate(SubSeq(ds, 1, Len(ds) - 1)), ds[Len(ds)])

RECURSIVE NewerThan(_, _)
NewerThan(ds, last_timestamp) ==
    IF ds = <<>> THEN <<>>
    ELSE (IF Head(ds) > last_timestamp THEN <<Head(ds)>> ELSE <<>>)
             \o NewerThan(Tail(ds), last_timestamp)

\* lines 86-101: new_records, filtered and sorted; a record is its date
NewRecords(all_records, last_timestamp) ==
    SortByDate(NewerThan(all_records, last_timestamp))

RECURSIVE MaxDateOf(_, _)
MaxDateOf(ds, start) ==
    IF ds = <<>> THEN start ELSE MaxDateOf(Tail(ds), Max2(start, Head(ds)))

\* line 135: batch[:batch_success], the records whose dates are counted
Counted(batch, batch_success) == SubSeq(batch, 1, batch_success)

ImportLocalsInit ==
    /\ i_new = <<>>
    /\ i_i = 0
    /\ i_max = 0
    /\ i_success = 0
    /\ i_fail = 0
    /\ i_created = {}

ImportInit ==
    /\ i_all \in Seqs(1..MaxDate, MaxImport)
    /\ i_prev \in {0, 2}
    /\ i_last = i_prev
    /\ i_size \in {1, 2}
    /\ i_pc = "new"
    /\ ImportLocalsInit

ImportOff ==
    /\ i_all = <<>>
    /\ i_prev = 0
    /\ i_last = 0
    /\ i_size = 1
    /\ i_pc = "off"
    /\ ImportLocalsInit

\* lines 64-108: read the stored timestamp, parse, filter, sort
ImportRead ==
    /\ i_pc = "new"
    /\ LET new_records == NewRecords(i_all, i_last)
       IN  /\ i_new' = new_records
           /\ i_pc' = IF new_records = <<>> THEN "done" ELSE "batches"
    /\ i_max' = i_last
    /\ i_i' = 0
    /\ i_success' = 0
    /\ i_fail' = 0
    /\ i_created' = {}
    /\ UNCHANGED <<i_all, i_prev, i_last, i_size, notImpVars>>

\* lines 116-151: one batch.  batch_create_records creates all of the batch
\* in one request, or nothing, or (one by one) any part of it, and reports
\* how many; or it raises.
ImportBatch ==
    /\ i_pc = "batches"
    /\ i_i < Len(i_new)
    /\ LET last == IF i_i + i_size < Len(i_new) THEN i_i + i_size ELSE Len(i_new)
           batch == SubSeq(i_new, i_i + 1, last)
       IN  \E raised \in BOOLEAN, createdInBatch \in SUBSET (1..Len(batch)) :
              LET batch_success == Cardinality(createdInBatch)
              IN  IF raised
                  THEN /\ createdInBatch = {}
                       /\ i_fail' = i_fail + Len(batch)
                       /\ UNCHANGED <<i_success, i_max, i_created>>
                  ELSE /\ i_success' = i_success + batch_success
                       /\ i_fail' = i_fail + (Len(batch) - batch_success)
                       /\ i_max' = MaxDateOf(Counted(batch, batch_success), i_max)
                       /\ i_created' = i_created \cup {i_i + j : j \in createdInBatch}
    /\ i_i' = i_i + i_size
    /\ UNCHANGED <<i_all, i_prev, i_last, i_size, i_new, i_pc, notImpVars>>

\* lines 157-161 and Config.update_last_import_timestamp
ImportFinish ==
    /\ i_pc = "batches"
    /\ ~(i_i < Len(i_new))
    /\ i_last' = IF i_success > 0 THEN i_max ELSE i_last
    /\ i_pc' = "done"
    /\ UNCHANGED <<i_all, i_prev, i_size, i_new, i_i, i_max, i_success, i_fail,
                   i_created, notImpVars>>

ImportNext == ImportRead \/ ImportBatch \/ ImportFinish

ApiOff == RetryOff /\ BatchOff /\ ImportOff
ToolOff == ExtractOff /\ sync_dry = TRUE /\ FillOff /\ ValOff /\ ApiOff

ExtOff == ClfOff /\ CorrOff /\ ToolOff

(***************************************************************************)
(* Rule matcher: claims                                                    *)
(***************************************************************************)
\* the outcome of the earliest rule, in list order, whose category is c and
\* whose keyword is a substring of n; (None, None) when there is none
FirstRuleOutcome(rules, n, c) ==
    LET hits == {i \in 1..Len(rules) :
                    rules[i].category = c /\ Contains(rules[i].keyword, n)}
    IN  IF hits = {} THEN <<NONE, NONE>>
        ELSE <<rules[MinOf(hits)].purpose, rules[MinOf(hits)].subcat>>

\* C6 as stated: match returns the outcome of the earliest rule whose category
\* equals the input category and whose keyword is a substring of the note, both
\* taken as passed in, and (None, None) exactly when there is no such rule.
C6_FirstMatchOnRawInput ==
    m_pc = "matched" =>
        m_result = FirstRuleOutcome(matcher_rules, m_note, m_category)

\* C6 amended: match returns the outcome of the earliest rule, in list order,
\* whose category equals the whitespace-trimmed input category and whose
\* keyword is a substring of the whitespace-trimmed note, whatever the rules'
\* confidence, and (None, None) exactly when no rule satisfies both.
C6_FirstMatchOnTrimmedInput ==
    m_pc = "matched" =>
        /\ m_result = FirstRuleOutcome(matcher_rules, strip(m_note), strip(m_category))
        /\ (m_result = <<NONE, NONE>>) <=>
              ~\E i \in 1..Len(matcher_rules) :
                  /\ matcher_rules[i].category = strip(m_category)
                  /\ Contains(matcher_rules[i].keyword, strip(m_note))

\* two rules with different outcomes both match a note that carries
\* surrounding whitespace, and the earlier one is returned
C6_Witness ==
    /\ m_pc = "matched"
    /\ Len(matcher_rules) = 2
    /\ m_note # strip(m_note)
    /\ \A i \in 1..2 : /\ matcher_rules[i].category = strip(m_category)
                       /\ Contains(matcher_rules[i].keyword, strip(m_note))
    /\ matcher_rules[1].purpose # matcher_rules[2].purpose
    /\ m_result = <<matcher_rules[1].purpose, matcher_rules[1].subcat>>

SameLetter(c1, c2) ==
    \/ c1 = c2
    \/ \E i \in 1..Len(LowerLetters) : {c1, c2} = {LowerLetters[i], UpperLetters[i]}

EqualsIgnoringCase(s, t) ==
    /\ Len(s) = Len(t)
    /\ \A i \in 1..Len(s) : SameLetter(s[i], t[i])

\* the rows of the file that the rule-file format calls enabled
EnabledRowNumbers(file) ==
    {i \in 1..Len(file.rows) :
        ~file.has_enabled \/ EqualsIgnoringCase(file.rows[i].enabled, TRUE_TEXT)}

\* the k-th smallest element of a set of numbers
RECURSIVE KthSmallest(_, _)
KthSmallest(S, k) ==
    IF k = 1 THEN MinOf(S) ELSE KthSmallest(S \ {MinOf(S)}, k - 1)

\* C7: load_rules keeps exactly the rows whose enabled value equals TRUE
\* ignoring case (every row when the column is absent), in file order, and the
\* rule match returns is never a disabled row: it is the first enabled row of
\* the file that matches.
C7_LoadKeepsEnabledRowsInOrder ==
    LET en == EnabledRowNumbers(rules_file)
        hits == {i \in en :
                    /\ rules_file.rows[i].category = strip(m_category)
                    /\ Contains(rules_file.rows[i].keyword, strip(m_note))}
    IN  /\ m_pc \in {"loaded", "matched"} =>
            /\ Len(matcher_rules) = Cardinality(en)
            /\ \A k \in 1..Len(matcher_rules) :
                  matcher_rules[k] = RuleOfRow(rules_file.rows[KthSmallest(en, k)])
        /\ m_pc = "matched" =>
            m_result = IF hits = {} THEN <<NONE, NONE>>
                       ELSE <<rules_file.rows[MinOf(hits)].purpose,
                              rules_file.rows[MinOf(hits)].subcat>>

\* a disabled first row and a second row enabled as "true" both fit the call,
\* with different outcomes; the second row's outcome is returned
C7_Witness ==
    /\ m_pc = "matched"
    /\ rules_file.has_enabled
    /\ Len(rules_file.rows) = 2
    /\ rules_file.rows[1].enabled = <<"F","A","L","S","E">>
    /\ rules_file.rows[2].enabled = <<"t","r","u","e">>
    /\ \A i \in 1..2 : /\ rules_file.rows[i].category = strip(m_category)
                       /\ Contains(rules_file.rows[i].keyword, strip(m_note))
    /\ rules_file.rows[1].purpose # rules_file.rows[2].purpose
    /\ m_result = <<rules_file.rows[2].purpose, rules_file.rows[2].subcat>>

(***************************************************************************)
(* extract_keywords: claims                                                *)
(***************************************************************************)
\* C8 as stated: for a non-empty note the candidate set is the whole note when
\* the note has at most 6 characters, and otherwise exactly its prefixes of
\* length 3, 4 and 5.
C8_WholeNoteOrPrefixes ==
    (kw_pc = "done" /\ kw_note # <<>>) =>
        kw_out = IF Len(kw_note) <= 6 THEN {kw_note}
                 ELSE {Prefix(kw_note, 3), Prefix(kw_note, 4), Prefix(kw_note, 5)}

(***************************************************************************)
(* Rule miner: claims                                                      *)
(***************************************************************************)
\* the qualifying records counted under a (keyword, category) key
RecordsOfKey(key) ==
    {i \in 1..Len(corpus) :
        /\ Qualifies(corpus[i])
        /\ corpus[i].category = key[2]
        /\ key[1] \in extract_keywords(corpus[i].note)}

\* those of them that carry the outcome
RecordsOfOutcome(key, out) ==
    {i \in RecordsOfKey(key) : <<corpus[i].purpose, corpus[i].subcat>> = out}

OutcomesOfKey(key) ==
    {<<corpus[i].purpose, corpus[i].subcat>> : i \in RecordsOfKey(key)}

BestCountOfKey(key) ==
    MaxOf({Cardinality(RecordsOfOutcome(key, out)) : out \in OutcomesOfKey(key)})

CorpusKeys ==
    UNION {{<<kw, corpus[i].category>> : kw \in extract_keywords(corpus[i].note)} :
              i \in {j \in 1..Len(corpus) : Qualifies(corpus[j])}}

\* the keys whose winning count reaches min_count
CandidateKeys == {key \in CorpusKeys : BestCountOfKey(key) >= min_count}

\* C9: every emitted rule has min_count <= count <= total and
\* confidence = count/total, hence 0 < confidence <= 1, where total is the
\* number of qualifying records counted under the rule's (keyword, category)
\* key and count the number of those carrying the rule's (purpose, subcat),
\* the greatest count over the outcomes of the key.
C9_RuleCountsAndConfidence ==
    mine_pc = "done" =>
        \A k \in 1..Len(mine_rules) :
            LET r == mine_rules[k]
                key == <<r.keyword, r.category>>
            IN  /\ min_count <= r.count
                /\ r.count <= r.total
                /\ r.confidence.num * r.total = r.count * r.confidence.den
                /\ 0 < r.confidence.num
                /\ r.confidence.num <= r.confidence.den
                /\ r.total = Cardinality(RecordsOfKey(key))
                /\ r.count = Cardinality(RecordsOfOutcome(key, <<r.purpose, r.subcat>>))
                /\ r.count = BestCountOfKey(key)

\* a rule of confidence 2/3: two records agree and a third differs
C9_Witness ==
    /\ mine_pc = "done"
    /\ \E k \in 1..Len(mine_rules) :
          /\ mine_rules[k].count = 2
          /\ mine_rules[k].total = 3
          /\ mine_rules[k].confidence = [num |-> 2, den |-> 3]

\* (confidence, count) of a candidate key, from the corpus
KeyPairGreater(key, r) ==
    LET c == BestCountOfKey(key)
        t == Cardinality(RecordsOfKey(key))
    IN  \/ c * r.confidence.den > r.confidence.num * t
        \/ /\ c * r.confidence.den = r.confidence.num * t
           /\ c > r.count

MinNat(a, b) == IF a < b THEN a ELSE b

\* C10: the written rule list is ordered by (confidence, count) non-increasing,
\* has at most max_rules entries, every rule dropped by the truncation has a
\* (confidence, count) no greater than that of every kept rule, and the
\* matcher loading the written file tries the rules in this written order.
C10_RankedTruncatedOrder ==
    mine_pc = "done" =>
        LET keptKeys == {<<mine_rules[k].keyword, mine_rules[k].category>> :
                            k \in 1..Len(mine_rules)}
        IN  /\ \A i, j \in 1..Len(mine_rules) :
                  i < j => ~KeyGreater(mine_rules[j], mine_rules[i])
            /\ Len(mine_rules) <= max_rules
            /\ Len(mine_rules) = MinNat(max_rules, Cardinality(CandidateKeys))
            /\ Cardinality(keptKeys) = Len(mine_rules)
            /\ keptKeys \subseteq CandidateKeys
            /\ \A d \in CandidateKeys \ keptKeys :
                  \A k \in 1..Len(mine_rules) : ~KeyPairGreater(d, mine_rules[k])
            /\ Len(out_file.rows) = Len(mine_rules)
            /\ load_rules(out_file) =
                  [k \in 1..Len(mine_rules) |-> RuleOfRow(mine_rules[k])]

\* two candidate rules and max_rules = 1: the rule kept is the greater one,
\* although its key entered rule_stats after the dropped one's
C10_Witness ==
    /\ mine_pc = "done"
    /\ max_rules = 1
    /\ Cardinality(CandidateKeys) >= 2
    /\ Len(mine_rules) = 1
    /\ rule_stats[1].key # <<mine_rules[1].keyword, mine_rules[1].category>>
    /\ \E d \in CandidateKeys :
          \E e \in 1..Len(rule_stats) :
              /\ rule_stats[e].key = d
              /\ KeyGreater(mine_rules[1], RuleOfEntry(rule_stats[e]))

(***************************************************************************)
(* push_to_review: claims                                                  *)
(***************************************************************************)
\* the ledger records push_to_review considers: expenses with a non-empty
\* note and category
Considered == {id \in DOMAIN source :
                  /\ source[id].direction = EXPENSE
                  /\ strip(source[id].note) # <<>>
                  /\ strip(source[id].category) # <<>>}

Staged(id) == \E k \in 1..Len(to_push) : to_push[k].source_id = id

Prediction(id) ==
    FirstRuleOutcome(matcher_rules, strip(source[id].note), strip(source[id].category))

\* C5: push_to_review stages an expense record with a non-empty note and
\* category if and only if the matcher returns no prediction for it or the
\* prediction differs from the record's current purpose or subcat; a record
\* whose purpose and subcat both equal the prediction is never staged; every
\* staged item has status pending.
C5_StagedIffNoRuleOrMismatch ==
    push_pc = "done" =>
        /\ \A id \in Considered :
              Staged(id) <=>
                  \/ Prediction(id) = <<NONE, NONE>>
                  \/ Prediction(id) # <<source[id].purpose, source[id].subcat>>
        /\ \A id \in DOMAIN source \ Considered : ~Staged(id)
        /\ \A k \in 1..Len(to_push) : to_push[k].status = PENDING
        /\ \A k \in 1..Len(review) : review[k].status = PENDING

(***************************************************************************)
(* sync_from_review: claims                                                *)
(***************************************************************************)
\* C1: in a run with dry_run=False, a confirmed item whose write-back to its
\* ledger record failed (batch_update_records raised, or the record failed in
\* the per-row fallback) keeps status confirmed and is not set to synced.
C1_FailedWriteBackStaysConfirmed ==
    \A i \in wfail : review[i].status = CONFIRMED

LastRun == hist[Len(hist)]

CleanRunDone ==
    /\ sync_pc = "idle"
    /\ Len(hist) >= 1
    /\ ~LastRun.dry
    /\ ~LastRun.failed

Actionable(rev) ==
    {i \in 1..Len(rev) :
        /\ rev[i].status = CONFIRMED
        /\ rev[i].source_id # ""
        /\ (rev[i].final_purpose # "" \/ rev[i].final_subcat # "")}

C4_OnlyConfirmedItemsTouched ==
    [][/\ Len(review') = Len(review)
       /\ \A i \in 1..Len(review) :
             review[i].status # CONFIRMED => review'[i] = review[i]
       /\ \A r \in DOMAIN source :
             source'[r] # source[r] =>
                 \E i \in 1..Len(snap) :
                     snap[i].status = CONFIRMED /\ snap[i].source_id = r]_vars

\* a run synced a confirmed item while the table also held an item of another
\* status, which is as it was
C4_Witness ==
    /\ sync_pc = "idle"
    /\ Len(hist) >= 1
    /\ LastRun.synced # {}
    /\ LastRun.written # {}
    /\ \E i \in 1..Len(snap) :
          /\ snap[i].status \in {PENDING, SYNCED, IGNORED}
          /\ review[i] = snap[i]

(***************************************************************************)
(* extract_rules run twice: claims                                         *)
(***************************************************************************)
\* C11: two runs of extract_rules over the same corpus, in the same record
\* order and with the same parameters, end with the same ranked rule list,
\* the order of rules that tie on (confidence, count) and the winning outcome
\* of every key included.
C11_SameCorpusSameRuleList ==
    Len(mine_hist) = 2 => mine_hist[2] = mine_hist[1]

(***************************************************************************)
(* Mining and matching the lunch corpus: claims                            *)
(***************************************************************************)
LunchRuleFor(kw) ==
    [keyword |-> kw, category |-> LunchCategory,
     purpose |-> DailyEatOut[1], subcat |-> DailyEatOut[2],
     confidence |-> [num |-> 3, den |-> 5], count |-> 3, total |-> 5]

MinedRules == {mine_rules[k] : k \in 1..Len(mine_rules)}

\* C12 as stated: mining the five lunch records with min_count=2 yields a
\* rule with the two-character keyword U+5348 U+9910, and rules for the 3, 4
\* and 5 character prefixes, each with outcome (daily, eatout), confidence
\* 0.6, count 3 and total 5; matching a new transaction with the same note and
\* category predicts (daily, eatout).
C12_LunchRuleWithShortKeyword ==
    /\ mine_pc = "done" =>
          /\ LunchRuleFor(Prefix(LunchNote, 2)) \in MinedRules
          /\ \A n \in 3..5 : LunchRuleFor(Prefix(LunchNote, n)) \in MinedRules
    /\ m_pc = "matched" => m_result = DailyEatOut

\* C12 amended: mining the five lunch records with min_count=2 yields exactly
\* three rules, whose keywords are the 3, 4 and 5 character prefixes of the
\* note (no rule has the two-character keyword), each with outcome (daily,
\* eatout), confidence 0.6 (written as 60.00%), count 3 and total 5; matching
\* a new transaction with the same note and category against the written file
\* predicts (daily, eatout).
C12_LunchRulesForPrefixes ==
    /\ mine_pc = "done" =>
          /\ Len(mine_rules) = 3
          /\ MinedRules = {LunchRuleFor(Prefix(LunchNote, n)) : n \in 3..5}
          /\ \A k \in 1..Len(out_file.rows) : out_file.rows[k].confidence = 6000
    /\ m_pc = "matched" => m_result = DailyEatOut

\* the rules were mined and written, and the new transaction was matched
C12_Witness ==
    /\ mine_pc = "done"
    /\ Len(mine_rules) = 3
    /\ m_pc = "matched"
    /\ m_result = DailyEatOut
    /\ m_note = LunchNote

(***************************************************************************)
(* ExpenseClassifier: claims                                               *)
(***************************************************************************)
Vocabulary == clf.purpose_vocab \cup clf.subcat_vocab

UnseenNote(note) ==
    \A i \in 1..Len(tokenize(note)) : tokenize(note)[i] \notin Vocabulary

\* C13: a trained classifier asked, with the default threshold 0.3, about a
\* note none of whose tokens is in the training vocabulary returns no
\* prediction: purpose None and subcat None.
C13_UnseenNoteGetsNoPrediction ==
    (/\ p_pc = "predicted"
     /\ clf.is_trained
     /\ p_threshold = [num |-> 3, den |-> 10]
     /\ UnseenNote(p_note)
     /\ ~p_result.raised) =>
        /\ p_result.purpose = NONE
        /\ p_result.subcat = NONE

SameModel(a, b) ==
    /\ NestedItems(a.purpose_word_counts) = NestedItems(b.purpose_word_counts)
    /\ DictItems(a.purpose_total_counts) = DictItems(b.purpose_total_counts)
    /\ DictItems(a.purpose_doc_counts) = DictItems(b.purpose_doc_counts)
    /\ a.purpose_vocab = b.purpose_vocab
    /\ NestedItems(a.subcat_word_counts) = NestedItems(b.subcat_word_counts)
    /\ DictItems(a.subcat_total_counts) = DictItems(b.subcat_total_counts)
    /\ DictItems(a.subcat_doc_counts) = DictItems(b.subcat_doc_counts)
    /\ a.subcat_vocab = b.subcat_vocab
    /\ NestedItems(a.category_purpose_map) = NestedItems(b.category_purpose_map)
    /\ NestedItems(a.category_subcat_map) = NestedItems(b.category_subcat_map)
    /\ a.total_docs = b.total_docs

\* C14: after any sequence of train calls the model is the one a new
\* classifier has after a single train call on the corpus of the most recent
\* call; in particular train(C) twice leaves the model of train(C) once.
C14_ModelDependsOnLastCorpusOnly ==
    (p_pc = "idle" /\ train_log # <<>>) =>
        SameModel(clf, train(NewClassifier, train_log[Len(train_log)]))

(***************************************************************************)
(* learn_from_ledger and SmartCategorizer: claims                          *)
(***************************************************************************)
\* C15: when the baseline prediction of a record equals its confirmed
\* category, the learning step makes no add_correction call, leaves the
\* corrections file as it was and does not increment the learned count.
C15_AgreementIsNoOp ==
    \A i \in 1..Len(learn_log) :
        LET e == learn_log[i]
        IN  (~e.skipped /\ e.prediction = FieldStr(e.category)) =>
                /\ ~e.added
                /\ e.file_after = e.file_before
                /\ e.learned_after = e.learned_before

\* an agreement through a keyword rule, and one through a stored correction
C15_Witness ==
    /\ \E i \in 1..Len(learn_log) :
          /\ ~learn_log[i].skipped
          /\ learn_log[i].counterparty = Starbucks
          /\ learn_log[i].prediction = FieldStr(learn_log[i].category)
    /\ \E i \in 1..Len(learn_log) :
          /\ ~learn_log[i].skipped
          /\ learn_log[i].counterparty = <<"T","*">>
          /\ learn_log[i].prediction = FieldStr(learn_log[i].category)
          /\ learn_log[i].file_before # <<>>

\* the add_correction calls made so far for a key, as positions of api_log
AddsFor(key) ==
    {m \in 1..Len(api_log) :
        api_log[m].op = "add" /\ clean(api_log[m].counterparty) = key}

\* C16: after any sequence of add_correction calls the store holds at most
\* one entry per normalized counterparty, an entry for every counterparty
\* that was corrected, and each entry holds the category of the most recent
\* add_correction call whose counterparty normalizes to its key.
C16_OneEntryLastWriteWins ==
    /\ \A a, b \in 1..Len(corr_file) :
          corr_file[a].k = corr_file[b].k => a = b
    /\ \A a \in 1..Len(corr_file) :
          /\ AddsFor(corr_file[a].k) # {}
          /\ corr_file[a].v = api_log[MaxOf(AddsFor(corr_file[a].k))].category
    /\ \A m \in 1..Len(api_log) :
          api_log[m].op = "add" =>
              DictHas(corr_file, clean(api_log[m].counterparty))

\* two raw counterparties with one key, corrected to different categories
C16_Witness ==
    /\ Len(corr_file) = 1
    /\ \E m, n \in 1..Len(api_log) :
          /\ m < n
          /\ api_log[m].op = "add"
          /\ api_log[n].op = "add"
          /\ api_log[m].counterparty # api_log[n].counterparty
          /\ api_log[m].category # api_log[n].category
          /\ clean(api_log[m].counterparty) = clean(api_log[n].counterparty)

\* C17: once add_correction(counterparty, category) has returned, the
\* corrections file holds the category under the normalized counterparty,
\* and every later categorize call for that counterparty returns it, with
\* any source type and seed category and before the keyword rules, until
\* another add_correction call overwrites the entry.
C17_CorrectionWinsUntilOverwritten ==
    /\ \A i \in 1..Len(api_log) :
          api_log[i].op = "add" =>
              DictGet(api_log[i].file, clean(api_log[i].counterparty),
                      NoneText) = api_log[i].category
    /\ \A i, j \in 1..Len(api_log) :
          ( /\ i < j
            /\ api_log[i].op = "add"
            /\ api_log[j].op = "categorize"
            /\ clean(api_log[j].counterparty) = clean(api_log[i].counterparty)
            /\ \A m \in (i + 1)..(j - 1) :
                  ~(api_log[m].op = "add"
                    /\ clean(api_log[m].counterparty)
                           = clean(api_log[i].counterparty)) )
          => api_log[j].result = api_log[i].category

\* a correction against the keyword rule of the counterparty, asked for twice
C17_Witness ==
    /\ Len(api_log) = 3
    /\ api_log[1].op = "add"
    /\ api_log[1].counterparty = Starbucks
    /\ api_log[1].category = Fun
    /\ api_log[2].op = "categorize"
    /\ api_log[2].counterparty = Starbucks \o <<"UFF08","1","UFF09">>
    /\ api_log[2].category = Spend
    /\ api_log[2].result = Fun
    /\ api_log[3].op = "categorize"
    /\ api_log[3].source_type = "unknown"
    /\ api_log[3].counterparty = Starbucks
    /\ api_log[3].result = Fun

\* the corrections the two jobs recorded for a key, as positions of learn_log
WritesFor(key) ==
    {m \in 1..Len(learn_log) :
        /\ learn_log[m].added
        /\ clean(FieldStr(learn_log[m].counterparty)) = key}

\* C18: when two learning jobs have run concurrently on the same corrections
\* file, every correction either of them recorded is in the file: each
\* corrected counterparty has its entry, holding the category of the latest
\* write for it.
C18_NoLostUpdate ==
    (\A j \in Jobs : l_pc[j] = "done") =>
        \A m \in 1..Len(learn_log) :
            learn_log[m].added =>
                LET key == clean(FieldStr(learn_log[m].counterparty))
                IN  /\ DictHas(corr_file, key)
                    /\ DictGet(corr_file, key, NoneText)
                           = FieldStr(learn_log[MaxOf(WritesFor(key))].category)

HasParenPart(s, l, r) ==
    \E i, j \in 1..Len(s) : i < j /\ s[i] = l /\ s[j] = r

\* C19: clean is idempotent; what it returns has no parenthesised part in
\* ASCII or full-width parentheses, no asterisk and no blank at either end;
\* None and the empty string give the empty string; "Test (123)" and its
\* full-width spelling give "Test", "Test*123" gives "Test123".
C19_CleanIdempotentAndStrips ==
    /\ Len(clean_log) = 2 => clean_log[2].out = clean_log[1].out
    /\ \A i \in 1..Len(clean_log) :
          LET e == clean_log[i]
          IN  /\ ~HasParenPart(e.out, "(", ")")
              /\ ~HasParenPart(e.out, "UFF08", "UFF09")
              /\ \A n \in 1..Len(e.out) : e.out[n] # "*"
              /\ strip(e.out) = e.out
              /\ e.arg \in {NoneText, <<>>} => e.out = <<>>
              /\ e.arg \in {TestAscii, TestWide} => e.out = TestClean
              /\ e.arg = TestStar => e.out = TestStarClean

\* clean applied twice to an input that had something of each kind removed
C19_Witness ==
    /\ Len(clean_log) = 2
    /\ clean_log[1].arg = <<" ", "(", ")", "*">>
    /\ clean_log[2].arg = <<>>

\* C20: the learning step skips a record, with no categorizer call and no
\* change of the corrections file, whenever the record's normalized
\* counterparty is empty, its confirmed category is empty, or its confirmed
\* category is one of the two the job does not learn from.
C20_SkipsUnlearnableRecords ==
    \A i \in 1..Len(learn_log) :
        LET e == learn_log[i]
        IN  ( \/ clean(e.counterparty) = <<>>
              \/ FieldStr(e.category) = <<>>
              \/ FieldStr(e.category) \in DoNotLearn )
            => (e.skipped /\ e.file_after = e.file_before)

(***************************************************************************)
(* extract_counterparty_from_note: claims                                  *)
(***************************************************************************)
\* the text after the first '-' of the note of the call, trimmed
X_Rest ==
    LET i == CHOOSE i \in 1..Len(x_note) :
                 x_note[i] = "-" /\ \A k \in 1..(i - 1) : x_note[k] # "-"
    IN  strip(SubSeq(x_note, i + 1, Len(x_note)))

X_NoteHasDash == x_note # NoneText /\ \E i \in 1..Len(x_note) : x_note[i] = "-"

X_TrimmedCategory == IF x_category = NoneText THEN <<>> ELSE strip(x_category)

\* C21, as stated: a note with a '-' and a non-empty trimmed rest gives that
\* rest whatever the category is; a note without '-' whose trimmed text
\* differs from the trimmed category gives the whole trimmed note.
C21_DashRestOrWholeNote ==
    x_pc = "done" =>
        /\ (X_NoteHasDash /\ X_Rest # <<>>) => x_result = X_Rest
        /\ (x_note # NoneText /\ ~X_NoteHasDash
              /\ strip(x_note) # X_TrimmedCategory) => x_result = strip(x_note)

\* C21, amended: the same, the second half for notes that are not empty
\* after trimming; the two examples of the claim hold.
C21_DashRestOrNonEmptyWholeNote ==
    x_pc = "done" =>
        /\ (X_NoteHasDash /\ X_Rest # <<>>) => x_result = X_Rest
        /\ (x_note # NoneText /\ ~X_NoteHasDash /\ strip(x_note) # <<>>
              /\ strip(x_note) # X_TrimmedCategory) => x_result = strip(x_note)
        /\ (x_note = TrafficMetro /\ x_category = Traffic) => x_result = Metro
        /\ (x_note = Starbucks /\ x_category = Spend) => x_result = Starbucks

\* a note with two separators: the rest starts after the first one
C21_Witness ==
    /\ x_pc = "done"
    /\ x_note = <<"-", "-", "a">>
    /\ x_category = NoneText
    /\ x_result = <<"-", "a">>

\* C22: extract_counterparty_from_note returns None whenever the note is
\* empty after trimming, the trimmed note equals the trimmed category, or
\* the note has a '-' and nothing but blanks after the first one.
C22_NothingForAmbiguousNotes ==
    x_pc = "done" =>
        ( ( \/ x_note = NoneText
            \/ strip(x_note) = <<>>
            \/ strip(x_note) = X_TrimmedCategory
            \/ (X_NoteHasDash /\ X_Rest = <<>>) )
          => x_result = NoneText )

(***************************************************************************)
(* C23: in preview mode (dry_run, the default) sync_from_review,           *)
(* fill_by_rules and apply_validation leave both tables as they are; a     *)
(* step that changes a table belongs to a call made with dry_run off and,  *)
(* for fill_by_rules and apply_validation, answered y at the prompt.       *)
(***************************************************************************)
FillWrote == f_pc = "new" /\ f_pc' = "done" /\ ~f_dry' /\ lower(f_confirm') = <<"y">>
ValWrote == v_pc = "new" /\ v_pc' = "done" /\ ~v_dry' /\ lower(v_confirm') = <<"y">>
SyncWritePcs == {"src_bulk", "src_row", "rev_bulk", "rev_row"}
SyncWriting == sync_pc \in SyncWritePcs /\ ~sync_dry

C23_PreviewWritesNothing ==
    [][ /\ (source' # source \/ review' # review)
            => (FillWrote \/ ValWrote \/ SyncWriting)
        /\ (sync_pc' \in SyncWritePcs => ~sync_dry') ]_vars

\* a preview of fill_by_rules that had updates to propose and wrote none
C23_Witness ==
    /\ f_pc = "done"
    /\ f_dry
    /\ lower(f_confirm) = <<"y">>
    /\ f_updates # <<>>
    /\ source = f_before


(***************************************************************************)
(* Specifications                                                          *)
(***************************************************************************)
\* each specification runs one component; the others are parked
(***************************************************************************)
(* C26: without overwrite, fill_by_rules proposes and writes values only   *)
(* for fields that are empty, of expense records a rule matches; a record  *)
(* whose purpose and subcategory both have a value is not updated.         *)
(* IsEmpty says which values count as empty.                               *)
(***************************************************************************)
FillDoneNoOverwrite == f_pc = "done" /\ ~f_overwrite

FillsOnlyEmpty(IsEmpty(_)) ==
    FillDoneNoOverwrite =>
        /\ \A k \in 1..Len(f_updates) :
              LET u == f_updates[k]
                  rec == f_before[u.record_id]
                  pred == match(load_rules(rules_file), rec.note, rec.category)
              IN  /\ rec.direction = EXPENSE
                  /\ u.purpose # "" => (IsEmpty(rec.purpose) /\ u.purpose = pred[1])
                  /\ u.subcat # "" => (IsEmpty(rec.subcat) /\ u.subcat = pred[2])
                  /\ ~(~IsEmpty(rec.purpose) /\ ~IsEmpty(rec.subcat))
        /\ \A id \in DOMAIN source :
              /\ source[id].purpose # f_before[id].purpose => IsEmpty(f_before[id].purpose)
              /\ source[id].subcat # f_before[id].subcat => IsEmpty(f_before[id].subcat)
              /\ source[id].direction # EXPENSE => source[id] = f_before[id]

IsEmptyString(v) == v = ""
IsBlank(v) == StripLabel(v) = ""

\* C26 as stated: empty is the empty string
C26_FillsOnlyEmptyFields == FillsOnlyEmpty(IsEmptyString)

\* C26 amended: empty is empty after trimming, as the code tests it
C26_FillsOnlyBlankFields == FillsOnlyEmpty(IsBlank)

\* a confirmed run that filled the empty subcategory of a record and kept
\* the purpose the record had
C26_Witness ==
    /\ FillDoneNoOverwrite
    /\ ~f_dry
    /\ \E k \in 1..Len(f_updates) :
          LET u == f_updates[k]
          IN  /\ u.purpose = ""
              /\ u.subcat = "x"
              /\ f_before[u.record_id].purpose = "q"
              /\ f_before[u.record_id].subcat = ""
              /\ source[u.record_id].purpose = "q"
              /\ source[u.record_id].subcat = "x"

(***************************************************************************)
(* C24: when the bulk request of batch_create_records or                   *)
(* batch_update_records fails (another code than 0, or an exception out of *)
(* the call), every record is tried on its own and the result counts each  *)
(* record once, as a success or as a failure, with one entry of errors for *)
(* each failed record.                                                     *)
(***************************************************************************)
ErrorIndexes == {b_result.errors[k].index : k \in 1..Len(b_result.errors)}

C24_FallbackCountsEveryRecord ==
    /\ b_pc \in {"fallback", "done"} =>
          /\ Len(b_outcomes) = b_i
          /\ b_result.success + b_result.failed = b_i
          /\ Len(b_result.errors) = b_result.failed
          /\ ErrorIndexes = {i \in 0..(b_i - 1) : b_outcomes[i + 1] # "ok"}
    /\ b_pc = "done" => b_i = Len(b_records)

\* a fallback over three updates that ended with one success, one failed
\* request and one record without an id
C24_Witness ==
    /\ b_pc = "done"
    /\ b_kind = "update"
    /\ Len(b_records) = b_result.success + b_result.failed
    /\ b_result.success = 1
    /\ b_result.failed = 2
    /\ \E i \in 1..Len(b_outcomes) : b_outcomes[i] = "missing_id"
    /\ \E i \in 1..Len(b_outcomes) : b_outcomes[i] = "raise"

(***************************************************************************)
(* C29: _api_call_with_retry ends after at most max_retries requests.  It  *)
(* returns at once a body with code 0 or with an error code other than the *)
(* two rate-limit codes; it tries again only after a rate-limit code or a  *)
(* request exception; on the last attempt it returns the rate-limited body *)
(* or raises the exception again.                                          *)
(***************************************************************************)
Retryable(resp) ==
    \/ IsRequestException(resp)
    \/ resp.exc = NONE /\ CodeOf(resp) \in RateLimitCodes

RetryEnded == a_pc \in {"returned", "raised"}

RetrySafe ==
    /\ Len(a_seen) <= a_max
    /\ \A k \in 1..(Len(a_seen) - 1) : Retryable(a_seen[k])
    /\ a_slept = [k \in 1..a_attempt |-> Pow2(k - 1)]
    /\ a_pc = "loop" => Len(a_seen) = a_attempt /\ \A k \in 1..Len(a_seen) : Retryable(a_seen[k])
    /\ (RetryEnded /\ a_max > 0) =>
          /\ a_seen # <<>>
          /\ a_result = a_seen[Len(a_seen)]
          /\ (a_pc = "returned") = (a_result.exc = NONE)
          /\ Retryable(a_result) => Len(a_seen) = a_max
    /\ (RetryEnded /\ a_max = 0) => a_pc = "raised"

C29_RetryEndsWithinMaxRetries == []RetrySafe /\ <>RetryEnded

\* three requests: a timeout, a rate-limited body, and a rate-limited body
\* again, which the last attempt returns
C29_Witness ==
    /\ a_pc = "returned"
    /\ a_max = DefaultMaxRetries
    /\ Len(a_seen) = a_max
    /\ a_seen[1].exc = "Timeout"
    /\ a_result.code \in RateLimitCodes
    /\ a_slept = <<1, 2>>

(***************************************************************************)
(* C30: the stored last-import timestamp of a source never decreases, and  *)
(* at the end of a run every new record the store did not create has a     *)
(* date greater than the stored timestamp, so the next run takes it again. *)
(***************************************************************************)
C30_FailedRecordsStayEligible ==
    /\ i_last >= i_prev
    /\ i_pc = "done" =>
          \A k \in 1..Len(i_new) : k \notin i_created => i_new[k] > i_last

(***************************************************************************)
(* C27: predict reports confidence exactly 1 and never rejects: for a      *)
(* trained model with at least one class for a field and a note with at    *)
(* least one token it returns the highest-scoring class of that field, for *)
(* the threshold 0.3 and for the threshold 1 alike.                        *)
(***************************************************************************)
BestClasses(v, note, category) ==
    LET classes == {v.doc[i].k : i \in 1..Len(v.doc)}
        score(c) == Score(v, clf.total_docs, c, tokenize(note), category)
    IN  {c \in classes : \A d \in classes : RatLeq(score(d), score(c))}

PredictedWithTokens ==
    p_pc = "predicted" /\ clf.is_trained /\ tokenize(p_note) # <<>>

C27_ThresholdNeverRejects ==
    PredictedWithTokens =>
        /\ PurposeView(clf).doc # <<>> =>
              /\ ~p_result.raised
              /\ p_result.purpose \in BestClasses(PurposeView(clf), p_note, p_category)
              /\ p_result.purpose_confidence = RatOne
        /\ SubcatView(clf).doc # <<>> =>
              /\ ~p_result.raised
              /\ p_result.subcat \in BestClasses(SubcatView(clf), p_note, p_category)
              /\ p_result.subcat_confidence = RatOne

(***************************************************************************)
(* C28: after a pass of learn_from_ledger the baseline prediction for      *)
(* every record that was not skipped is the category of the last record,   *)
(* in ledger order, that was not skipped and has the same normalized       *)
(* counterparty.  So a second pass over the same ledger learns nothing     *)
(* when each counterparty has one category, and rewrites the entry of a    *)
(* counterparty that has two in every pass.                                *)
(***************************************************************************)
Learnable(rec) == ~Skips(FieldStr(rec.counterparty), FieldStr(rec.category))
Normalized(rec) == clean(FieldStr(rec.counterparty))

\* the positions of the records of the ledger that are not skipped and have
\* the normalized counterparty of record i
SameCounterparty(recs, i) ==
    {k \in 1..Len(recs) : Learnable(recs[k]) /\ Normalized(recs[k]) = Normalized(recs[i])}

TwoCategories(recs, i) ==
    \E k \in SameCounterparty(recs, i) :
        FieldStr(recs[k].category) # FieldStr(recs[i].category)

OneCategoryEach(recs) ==
    \A i \in 1..Len(recs) : Learnable(recs[i]) => ~TwoCategories(recs, i)

PassEnded(j) == l_pc[j] = "done" /\ (j = 1 => l_pc[2] = "wait")

RewritesIn(j, i) ==
    \E m \in 1..Len(learn_log) :
        /\ learn_log[m].job = j
        /\ learn_log[m].added
        /\ clean(FieldStr(learn_log[m].counterparty)) = Normalized(ledger[j][i])

C28_LastCategoryWinsPerCounterparty ==
    /\ \A j \in Jobs : PassEnded(j) =>
          \A i \in 1..Len(ledger[j]) : Learnable(ledger[j][i]) =>
              /\ categorize(corr_file, "unknown", <<>>,
                            FieldStr(ledger[j][i].counterparty), FALSE)
                   = FieldStr(ledger[j][MaxOf(SameCounterparty(ledger[j], i))].category)
              /\ TwoCategories(ledger[j], i) => RewritesIn(j, i)
    /\ OneCategoryEach(ledger[2]) => learned_count[2] = 0

\* a second pass that ended after rewriting the entry of a counterparty with
\* two categories, which the first pass had rewritten as well
C28_Witness ==
    /\ l_pc[2] = "done"
    /\ learned_count[1] = 2
    /\ learned_count[2] = 2
    /\ ~OneCategoryEach(ledger[2])

(***************************************************************************)
(* C25: whenever sync_from_review is stopped between two store calls, no   *)
(* review item is synced whose ledger record does not hold the item's      *)
(* final values; and once a later run has completed, the two tables are as *)
(* a single uninterrupted run leaves them.  Items are compared when no     *)
(* other selected item names the same ledger record, and the end states    *)
(* when no store call failed.                                              *)
(***************************************************************************)
WasInterrupted(e) == "interrupted" \in DOMAIN e

\* the review items the runs so far have set to synced
SyncedByRuns ==
    UNION {hist[k].synced : k \in 1..Len(hist)}
    \cup {i \in 1..Len(snap) : snap[i].status # SYNCED /\ review[i].status = SYNCED}

\* the review table before the first run
ReviewAtStart ==
    [i \in 1..Len(review) |->
        IF i \in SyncedByRuns THEN [review[i] EXCEPT !.status = CONFIRMED] ELSE review[i]]

SelectedAtStart ==
    {BuildUpdates(ReviewAtStart)[k].review_record_id :
        k \in 1..Len(BuildUpdates(ReviewAtStart))}

OnlyItemOfItsRecord(i) ==
    \A k \in SelectedAtStart \ {i} : review[k].source_id # review[i].source_id

HoldsFinalValues(i) ==
    LET rec == source[review[i].source_id]
    IN  /\ review[i].final_purpose # "" => rec.purpose = review[i].final_purpose
        /\ review[i].final_subcat # "" => rec.subcat = review[i].final_subcat

RunsEndedClean ==
    /\ sync_pc = "idle"
    /\ Len(hist) >= 1
    /\ ~WasInterrupted(hist[Len(hist)])
    /\ ~hist[Len(hist)].dry
    /\ \A k \in 1..Len(hist) : ~hist[k].failed

SyncedItemsHoldFinals ==
    \A i \in SyncedByRuns : OnlyItemOfItsRecord(i) => HoldsFinalValues(i)

ResumedRunEndsAsOneRun ==
    RunsEndedClean =>
        /\ source = ApplyAll(TwoRecordLedger, BuildUpdates(ReviewAtStart))
        /\ review = MarkSynced(ReviewAtStart, SelectedAtStart)

C25_InterruptedSyncResumes == SyncedItemsHoldFinals /\ ResumedRunEndsAsOneRun

InitRules == KwOff /\ MineOff /\ ReviewOff /\ ExtOff /\ RulesInit
InitKeywords == RulesOff /\ MineOff /\ ReviewOff /\ ExtOff /\ KwInit
InitMine == RulesOff /\ KwOff /\ ReviewOff /\ ExtOff /\ MineInit
InitPush == KwOff /\ MineOff /\ ExtOff /\ PushInit
InitSync == RulesOff /\ KwOff /\ MineOff /\ ExtOff /\ SyncInit

SpecRules == InitRules /\ [][RulesNext]_vars
SpecKeywords == InitKeywords /\ [][KwNext]_vars
SpecMine == InitMine /\ [][MineNext]_vars
InitLunch == KwOff /\ ReviewOff /\ ExtOff /\ LunchInit
SpecLunch == InitLunch /\ [][LunchNext]_vars
InitClassifier == CorrOff /\ ToolOff /\ RulesOff /\ KwOff /\ MineOff /\ ReviewOff /\ ClfInit
SpecClassifier == InitClassifier /\ [][ClfNext]_vars
SpecMineTwice == InitMine /\ [][MineTwiceNext]_vars

InitLearn == ClfOff /\ ToolOff /\ RulesOff /\ KwOff /\ MineOff /\ ReviewOff /\ LearnInit
SpecLearn == InitLearn /\ [][LearnNext]_vars

InitLearnPair ==
    ClfOff /\ ToolOff /\ RulesOff /\ KwOff /\ MineOff /\ ReviewOff /\ LearnPairInit
SpecLearnPair == InitLearnPair /\ [][LearnNext]_vars

InitStore == ClfOff /\ ToolOff /\ RulesOff /\ KwOff /\ MineOff /\ ReviewOff /\ StoreInit
SpecStore == InitStore /\ [][StoreNext]_vars

InitClean == ClfOff /\ ToolOff /\ RulesOff /\ KwOff /\ MineOff /\ ReviewOff /\ CleanInit
SpecClean == InitClean /\ [][CleanNext]_vars

InitExtract ==
    /\ sync_dry = TRUE /\ FillOff /\ ValOff /\ ApiOff
    /\ ClfOff /\ CorrOff /\ RulesOff /\ KwOff /\ MineOff /\ ReviewOff
    /\ ExtractInit
SpecExtract == InitExtract /\ [][ExtractNext]_vars

InitTools == ExtractOff /\ ApiOff /\ ClfOff /\ CorrOff /\ KwOff /\ MineOff /\ ToolsInit
ToolsNext == SyncNext \/ FillByRules \/ ApplyValidation
SpecTools == InitTools /\ [][ToolsNext]_vars

InitBatch ==
    /\ BatchInit
    /\ RetryOff /\ ImportOff
    /\ ExtractOff /\ sync_dry = TRUE /\ FillOff /\ ValOff
    /\ ClfOff /\ CorrOff /\ RulesOff /\ KwOff /\ MineOff /\ ReviewOff
SpecBatch == InitBatch /\ [][BatchNext]_vars

InitRetry ==
    /\ RetryInit
    /\ BatchOff /\ ImportOff
    /\ ExtractOff /\ sync_dry = TRUE /\ FillOff /\ ValOff
    /\ ClfOff /\ CorrOff /\ RulesOff /\ KwOff /\ MineOff /\ ReviewOff
SpecRetry == InitRetry /\ [][RetryNext]_vars
SpecRetryFair == SpecRetry /\ WF_vars(RetryNext)
InitImport ==
    /\ ImportInit
    /\ RetryOff /\ BatchOff
    /\ ExtractOff /\ sync_dry = TRUE /\ FillOff /\ ValOff
    /\ ClfOff /\ CorrOff /\ RulesOff /\ KwOff /\ MineOff /\ ReviewOff
SpecImport == InitImport /\ [][ImportNext]_vars
InitLearnTwice ==
    ClfOff /\ ToolOff /\ RulesOff /\ KwOff /\ MineOff /\ ReviewOff /\ LearnTwiceInit
SpecLearnTwice == InitLearnTwice /\ [][LearnTwiceNext]_vars
SpecPush == InitPush /\ [][PushNext]_vars
SpecSync == InitSync /\ [][SyncNext]_vars
SpecSyncInterrupt == InitSync /\ [][SyncInterruptNext]_vars
====
